---------------------------- MODULE Spec2Model ----------------------------
(***************************************************************************)
(* Model of the ambulance routing core (src/src/models/optimization_model  *)
(* .py): the collapse of the street multigraph to a simple directed graph, *)
(* the multi-commodity-flow program built over it, the solver driver and   *)
(* the extraction of routes, details and edge usage.                       *)
(*                                                                         *)
(* Units.  Lengths are metres.  Money is kept in thousandths of a COP, so  *)
(* that length_m * costo_km is exact: a cost c printed by the program is   *)
(* the integer 1000 * c here, and distancia_km d is the integer 1000 * d   *)
(* (metres).  A ratio (utilizacion) is the pair [num, den].                *)
(*                                                                         *)
(* The binary variables x[i,j,k] of flow k are kept as the set of edges    *)
(* (i,j) on which the variable is 1: x[k] \subseteq edges.                 *)
(***************************************************************************)
EXTENDS Integers, Sequences, FiniteSets, TLC

VARIABLES
    pc,              \* position of the caller (resolver_modelo_ambulancias)
    multi_grafo,     \* the caller's street graph (argument grafo)
    grafo,           \* self.grafo, the collapsed graph
    regrafo,         \* result of collapsing self.grafo once more
    emergencias,     \* self.emergencias
    nodo_origen,     \* self.nodo_origen
    costos_usuario,  \* self.costos_usuario
    modelo,          \* self.modelo: None or the built problem
    x,               \* values of the decision variables after the solve
    terminacion,     \* how the solver stopped
    estado,          \* self.estado
    valor_objetivo,  \* self.valor_objetivo
    rutas,           \* self.rutas
    detalles_flujos, \* self.detalles_flujos
    uso_aristas,     \* self.uso_aristas
    resultados,      \* the dict (or value) returned to the caller
    azar,            \* the state of the module random
    args,            \* the arguments of the run of the data preparation
    corridas         \* the results of the finished executions of the pipeline

vars == <<pc, multi_grafo, grafo, regrafo, emergencias, nodo_origen,
          costos_usuario, modelo, x, terminacion, estado, valor_objetivo,
          rutas, detalles_flujos, uso_aristas, resultados, azar, args,
          corridas>>

None == "None"

-----------------------------------------------------------------------------
(* Bounds of the model.                                                    *)

\* number of catalogue edges a street graph is drawn from
MaxAristas == 8
\* longest emergency list
MaxEmergencias == 2
\* most parallel edges of one ordered pair in the collapse specification
MaxParalelas == 2

-----------------------------------------------------------------------------
(* Generic helpers over sequences.                                         *)

Rango(s) == {s[n] : n \in 1..Len(s)}

RECURSIVE Escoger(_, _, _)
\* the subsequence of cat at the positions in S, from position n on
Escoger(cat, S, n) ==
    IF n > Len(cat) THEN <<>>
    ELSE (IF n \in S THEN <<cat[n]>> ELSE <<>>) \o Escoger(cat, S, n + 1)

RECURSIVE SumaSobre(_, _)
\* sum of f[e] over the finite set S (f a function on S)
SumaSobre(f, S) ==
    IF S = {} THEN 0
    ELSE LET e == CHOOSE e \in S : TRUE
         IN  f[e] + SumaSobre(f, S \ {e})

-----------------------------------------------------------------------------
(* Graphs.  A MultiDiGraph is [tipo, nodos, aristas] with aristas the      *)
(* sequence of its edges [u, v, key, length, capacity] in the order        *)
(* edges(keys=True, data=True) yields them.  A DiGraph has edges           *)
(* [u, v, length, capacity] in the order edges() yields them.              *)

MultiDiGraph(ns, es) == [tipo |-> "MultiDiGraph", nodos |-> ns, aristas |-> es]
DiGraph(ns, es) == [tipo |-> "DiGraph", nodos |-> ns, aristas |-> es]
TypeError == [tipo |-> "TypeError"]

\* the attribute dict of a multigraph edge
Data(e) == [length |-> e.length, capacity |-> e.capacity]

\* multi_grafo.number_of_edges(i, j)
NumberOfEdges(mg, i, j) ==
    Cardinality({n \in 1..Len(mg.aristas) :
                    mg.aristas[n].u = i /\ mg.aristas[n].v = j})

\* multi_grafo[i][j].items() in key order: the positions of the parallels
Paralelas(mg, i, j) ==
    Escoger(mg.aristas,
            {n \in 1..Len(mg.aristas) :
                mg.aristas[n].u = i /\ mg.aristas[n].v = j}, 1)

RECURSIVE MejorDataDesde(_, _, _, _)
\* the loop of lines 153-157: keep the first parallel of strictly larger
\* capacity, starting from mejor_capacidad = -1, mejor_data = None
MejorDataDesde(ps, n, mejor_capacidad, mejor_data) ==
    IF n > Len(ps) THEN mejor_data
    ELSE IF ps[n].capacity > mejor_capacidad
         THEN MejorDataDesde(ps, n + 1, ps[n].capacity, Data(ps[n]))
         ELSE MejorDataDesde(ps, n + 1, mejor_capacidad, mejor_data)

\* mutant: the data of the first parallel, whatever its capacity
MejorDataPrimera(ps) == Data(ps[1])

MejorData(ps) == MejorDataDesde(ps, 1, -1, None)

\* lines 149-162: the edge added for the pair of e, first edge of its pair
AristaDePar(mg, e) ==
    IF NumberOfEdges(mg, e.u, e.v) > 1
    THEN <<[u |-> e.u, v |-> e.v] @@ MejorData(Paralelas(mg, e.u, e.v))>>
    ELSE <<[u |-> e.u, v |-> e.v] @@ Data(e)>>

RECURSIVE SimplificarDesde(_, _, _)
\* the loop of lines 143-162 from position n, pares_procesados so far
SimplificarDesde(mg, n, pares_procesados) ==
    IF n > Len(mg.aristas) THEN <<>>
    ELSE LET e == mg.aristas[n]
         IN  IF <<e.u, e.v>> \notin pares_procesados
             THEN AristaDePar(mg, e)
                    \o SimplificarDesde(mg, n + 1,
                                        pares_procesados \cup {<<e.u, e.v>>})
             ELSE SimplificarDesde(mg, n + 1, pares_procesados)

\* _simplificar_a_digraph: edges(keys=True, ...) exists on a MultiDiGraph
\* only; on a DiGraph the call raises TypeError
Simplificar(mg) ==
    IF mg.tipo # "MultiDiGraph" THEN TypeError
    ELSE DiGraph(mg.nodos, SimplificarDesde(mg, 1, {}))


-----------------------------------------------------------------------------
(* Costs (src/config/costos.py), in thousandths of a COP.                  *)

PRIORIDAD_A_AMBULANCIA ==
    [leve |-> "TAB_leve", media |-> "TAM_moderada", grave |-> "TAM_grave"]

COSTOS ==
    [TAB_leve |->
        [nombre |-> "TAB - Transporte Asistencial Basico",
         costo_fijo_activacion |-> 35000, costo_por_km |-> 5585],
     TAM_moderada |->
        [nombre |-> "TAM - Transporte Asistencial Medicalizado (Moderada)",
         costo_fijo_activacion |-> 60000, costo_por_km |-> 10534],
     TAM_grave |->
        [nombre |-> "TAM - Transporte Asistencial Medicalizado (Grave)",
         costo_fijo_activacion |-> 85000, costo_por_km |-> 20396]]

\* costos_usuario is None or a dict severity -> {costo_fijo, costo_km}; None
\* and the empty dict are both false in "if self.costos_usuario and ..."
SinCostosUsuario == [s \in {} |-> None]

\* "self.costos_usuario and severidad in self.costos_usuario"
UsaCostosUsuario(cu, severidad) == severidad \in DOMAIN cu

\* lines 232-236 and 541-547: the fixed cost of a severity
CostoFijo(cu, severidad) ==
    IF UsaCostosUsuario(cu, severidad)
    THEN cu[severidad].costo_fijo
    ELSE COSTOS[PRIORIDAD_A_AMBULANCIA[severidad]].costo_fijo_activacion

\* lines 246-250 and 541-548: the cost per km of a severity
CostoKm(cu, severidad) ==
    IF UsaCostosUsuario(cu, severidad)
    THEN cu[severidad].costo_km
    ELSE COSTOS[PRIORIDAD_A_AMBULANCIA[severidad]].costo_por_km

\* lines 544 and 549: the ambulance label of a severity
TipoAmbStr(cu, severidad) ==
    IF UsaCostosUsuario(cu, severidad)
    THEN <<"Ambulancia ", severidad>>
    ELSE COSTOS[PRIORIDAD_A_AMBULANCIA[severidad]].nombre

-----------------------------------------------------------------------------
(* The program built by construir_modelo over self.grafo, and its          *)
(* solutions.  Flow k of the program is flow k + 1 here (flows 1..K).      *)

\* self.aristas as the set of pairs (i, j)
Aristas(g) == {<<g.aristas[n].u, g.aristas[n].v>> : n \in 1..Len(g.aristas)}

\* self.grafo[i][j]
Arista(g, i, j) ==
    g.aristas[CHOOSE n \in 1..Len(g.aristas) :
                  g.aristas[n].u = i /\ g.aristas[n].v = j]

\* mutant: the origin row has the sign of a destination row
ConservacionNodo_signoOrigen(S, nodo, origen, dest_k) ==
    LET entrantes == Cardinality({e \in S : e[2] = nodo})
        salientes == Cardinality({e \in S : e[1] = nodo})
    IN  IF nodo = origen THEN entrantes - salientes = 1
        ELSE IF nodo = dest_k THEN entrantes - salientes = 1
        ELSE entrantes - salientes = 0

\* lines 297-333: the conservation row of flow k at nodo, for the edge set S
\* on which x[., ., k] is 1
ConservacionNodo(S, nodo, origen, dest_k) ==
    LET entrantes == Cardinality({e \in S : e[2] = nodo})
        salientes == Cardinality({e \in S : e[1] = nodo})
    IN  IF nodo = origen THEN salientes - entrantes = 1
        ELSE IF nodo = dest_k THEN entrantes - salientes = 1
        ELSE entrantes - salientes = 0

\* mutant: no row for the intermediate nodes
RestriccionConservacionFlujo_sinIntermedios(g, S, origen, dest_k) ==
    \A nodo \in {origen, dest_k} : ConservacionNodo(S, nodo, origen, dest_k)

\* _restriccion_conservacion_flujo for one flow
RestriccionConservacionFlujo(g, S, origen, dest_k) ==
    \A nodo \in Rango(g.nodos) : ConservacionNodo(S, nodo, origen, dest_k)

\* the demand of lines 353-356 on edge e under the assignment xx
DemandaTotal(ems, xx, e) ==
    SumaSobre([k \in 1..Len(ems) |->
                  IF e \in xx[k] THEN ems[k].velocidad_requerida ELSE 0],
              1..Len(ems))

\* mutant: each flow alone must fit the edge
RestriccionCapacidadVias_porFlujo(g, ems, xx) ==
    \A e \in Aristas(g) : \A k \in 1..Len(ems) :
        e \in xx[k] => ems[k].velocidad_requerida <= Arista(g, e[1], e[2]).capacity

\* _restriccion_capacidad_vias
RestriccionCapacidadVias(g, ems, xx) ==
    \A e \in Aristas(g) :
        DemandaTotal(ems, xx, e) <= Arista(g, e[1], e[2]).capacity

\* the metres of the edge set S
LongitudTotal(g, S) ==
    SumaSobre([e \in S |-> Arista(g, e[1], e[2]).length], S)

\* mutant: the objective charges the fixed costs only
FuncionObjetivo_soloFijo(g, ems, cu, xx) ==
    SumaSobre([k \in 1..Len(ems) |-> 1000 * CostoFijo(cu, ems[k].severidad)],
              1..Len(ems))

\* _definir_funcion_objetivo: Z = sum CF + sum (d_ij / 1000) * CK * x_ijk
FuncionObjetivo(g, ems, cu, xx) ==
    SumaSobre([k \in 1..Len(ems) |-> 1000 * CostoFijo(cu, ems[k].severidad)],
              1..Len(ems))
    + SumaSobre([k \in 1..Len(ems) |->
                    LongitudTotal(g, xx[k]) * CostoKm(cu, ems[k].severidad)],
                1..Len(ems))

\* the edge sets of one flow that satisfy its conservation rows
FlujosFactibles(g, origen, dest_k) ==
    {S \in SUBSET Aristas(g) : RestriccionConservacionFlujo(g, S, origen, dest_k)}

\* the assignments of the binary variables that satisfy every row
Factibles(g, ems, origen) ==
    LET FF == [k \in 1..Len(ems) |-> FlujosFactibles(g, origen, ems[k].nodo_destino)]
    IN  {xx \in [1..Len(ems) -> UNION {FF[k] : k \in 1..Len(ems)}] :
            /\ \A k \in 1..Len(ems) : xx[k] \in FF[k]
            /\ RestriccionCapacidadVias(g, ems, xx)}

\* self.gap, in hundredths (gapRel = 0.01)
GapPorCien == 1

\* mutant: every feasible solution is accepted, whatever its objective
DentroDelGap_todas(g, ems, cu, F) == F

\* the solutions the solver may stop at when it ends the search: the ones
\* whose objective is within gapRel of the optimum
DentroDelGap(g, ems, cu, F) ==
    LET Z == [xx \in F |-> FuncionObjetivo(g, ems, cu, xx)]
    IN  {xx \in F : \A yy \in F : Z[xx] - Z[yy] <= (GapPorCien * Z[xx]) \div 100}

-----------------------------------------------------------------------------
(* Extraction of the results from the solved variables.                    *)

\* lines 502-508: the first j, in the order of self.aristas, with
\* x[nodo_actual, j, k] > 0.5, as <<j>>; <<>> when siguiente_nodo stays None
SiguienteNodo(g, S, nodo_actual) ==
    LET cand == {n \in 1..Len(g.aristas) :
                    /\ g.aristas[n].u = nodo_actual
                    /\ <<g.aristas[n].u, g.aristas[n].v>> \in S}
    IN  IF cand = {} THEN <<>>
        ELSE <<g.aristas[CHOOSE n \in cand : \A m \in cand : n <= m].v>>

RECURSIVE SeguirFlujo(_, _, _, _, _)
\* the while loop of lines 500-522
SeguirFlujo(g, S, destino, ruta, nodo_actual) ==
    IF nodo_actual = destino THEN ruta
    ELSE LET siguiente_nodo == SiguienteNodo(g, S, nodo_actual)
         IN  IF siguiente_nodo = <<>> THEN ruta
             ELSE IF siguiente_nodo[1] \in Rango(ruta) THEN ruta
             ELSE SeguirFlujo(g, S, destino, Append(ruta, siguiente_nodo[1]),
                              siguiente_nodo[1])

\* _reconstruir_ruta_flujo
ReconstruirRutaFlujo(g, S, origen, destino) ==
    SeguirFlujo(g, S, destino, <<origen>>, origen)

\* _reconstruir_rutas
ReconstruirRutas(g, ems, origen, xx) ==
    [k \in 1..Len(ems) |->
        ReconstruirRutaFlujo(g, xx[k], origen, ems[k].nodo_destino)]

\* lines 557-568: the consecutive pairs of the route that are edges with
\* x > 0.5, in route order
AristasRuta(g, S, ruta) ==
    Escoger([n \in 1..(Len(ruta) - 1) |-> <<ruta[n], ruta[n + 1]>>],
            {n \in 1..(Len(ruta) - 1) : <<ruta[n], ruta[n + 1]>> \in S}, 1)

RECURSIVE SumaLongitudes(_, _, _)
\* distancia_total_m accumulated over aristas_ruta from position n
SumaLongitudes(g, ar, n) ==
    IF n > Len(ar) THEN 0
    ELSE Arista(g, ar[n][1], ar[n][2]).length + SumaLongitudes(g, ar, n + 1)

\* one entry of _calcular_detalles_flujos (lines 538-590)
DetalleFlujo(g, emerg, cu, S, ruta) ==
    LET aristas_ruta == AristasRuta(g, S, ruta)
        distancia    == SumaLongitudes(g, aristas_ruta, 1)
        sev          == emerg.severidad
        fijo         == 1000 * CostoFijo(cu, sev)
        variable     == distancia * CostoKm(cu, sev)
    IN  [emergencia_id |-> emerg.id,
         tipo_ambulancia |-> TipoAmbStr(cu, sev),
         severidad |-> sev,
         nodo_destino |-> emerg.nodo_destino,
         velocidad_requerida |-> emerg.velocidad_requerida,
         distancia_km |-> distancia,
         num_aristas |-> Len(aristas_ruta),
         costo_fijo |-> fijo,
         costo_variable |-> variable,
         costo_total |-> fijo + variable,
         ruta_nodos |-> ruta,
         ruta_aristas |-> aristas_ruta,
         velocidades_aristas |->
            [n \in 1..Len(aristas_ruta) |->
                Arista(g, aristas_ruta[n][1], aristas_ruta[n][2]).capacity]]

\* _calcular_detalles_flujos
CalcularDetallesFlujos(g, ems, cu, xx, rs) ==
    [k \in 1..Len(ems) |-> DetalleFlujo(g, ems[k], cu, xx[k], rs[k])]

RECURSIVE FlujosUsando(_, _, _, _)
\* lines 612-615: the ids (k + 1) of the flows with x > 0.5 on e, from flow k
FlujosUsando(ems, xx, e, k) ==
    IF k > Len(ems) THEN <<>>
    ELSE (IF e \in xx[k] THEN <<k>> ELSE <<>>) \o FlujosUsando(ems, xx, e, k + 1)

RECURSIVE CargaTotal(_, _, _)
\* carga_total accumulated over flujos_usando from position n
CargaTotal(ems, ids, n) ==
    IF n > Len(ids) THEN 0
    ELSE ems[ids[n]].velocidad_requerida + CargaTotal(ems, ids, n + 1)

\* mutant: the load counts one flow only
UsoArista_unaCarga(g, ems, xx, e) ==
    LET flujos_usando == FlujosUsando(ems, xx, e, 1)
        carga_total   == ems[flujos_usando[1]].velocidad_requerida
        capacidad     == Arista(g, e[1], e[2]).capacity
    IN  [num_flujos  |-> Len(flujos_usando),
         flujos_ids  |-> flujos_usando,
         carga_total |-> carga_total,
         capacidad   |-> capacidad,
         utilizacion |-> IF capacidad > 0
                         THEN [num |-> carga_total, den |-> capacidad]
                         ELSE [num |-> 0, den |-> 1]]

\* lines 617-627: the entry of edge e
UsoArista(g, ems, xx, e) ==
    LET flujos_usando == FlujosUsando(ems, xx, e, 1)
        carga_total   == CargaTotal(ems, flujos_usando, 1)
        capacidad     == Arista(g, e[1], e[2]).capacity
    IN  [num_flujos  |-> Len(flujos_usando),
         flujos_ids  |-> flujos_usando,
         carga_total |-> carga_total,
         capacidad   |-> capacidad,
         utilizacion |-> IF capacidad > 0
                         THEN [num |-> carga_total, den |-> capacidad]
                         ELSE [num |-> 0, den |-> 1]]

\* _calcular_uso_aristas: an entry for the edges with flujos_usando not empty
CalcularUsoAristas(g, ems, xx) ==
    [e \in {a \in Aristas(g) : FlujosUsando(ems, xx, a, 1) # <<>>} |->
        UsoArista(g, ems, xx, e)]

MensajeInfactible ==
    <<"El modelo no tiene solucion factible. Posibles causas:",
      "1. VELOCIDADES REQUERIDAS > CAPACIDADES",
      "2. GRAFO DESCONECTADO",
      "3. CUELLO DE BOTELLA EN CAPACIDADES">>

\* mutant: the message names the status, whatever it is
ObtenerMensajeInfactibilidad_generico(est) == <<"Estado del solver: ", est>>

\* _obtener_mensaje_infactibilidad
ObtenerMensajeInfactibilidad(est) ==
    IF est = "Infeasible" THEN MensajeInfactible
    ELSE IF est = "Unbounded"
         THEN <<"El problema esta no acotado (error en la formulacion).">>
         ELSE <<"Estado del solver: ", est>>

-----------------------------------------------------------------------------
(* One run of resolver_modelo_ambulancias on a street graph drawn from a   *)
(* catalogue of edges over the nodes 1 (origin), 2, 3, 4.                  *)

\* the candidate edges, in the order edges(keys=True) yields them (the edges
\* of a node together, parallels by key)
Catalogo ==
    << [u |-> 1, v |-> 2, key |-> 0, length |-> 1000, capacity |-> 60],
       [u |-> 1, v |-> 2, key |-> 1, length |-> 2500, capacity |-> 90],
       [u |-> 1, v |-> 3, key |-> 0, length |-> 2000, capacity |-> 60],
       [u |-> 1, v |-> 4, key |-> 0, length |-> 3000, capacity |-> 60],
       [u |-> 2, v |-> 3, key |-> 0, length |-> 10,   capacity |-> 90],
       [u |-> 2, v |-> 4, key |-> 0, length |-> 1000, capacity |-> 60],
       [u |-> 3, v |-> 2, key |-> 0, length |-> 10,   capacity |-> 90],
       [u |-> 3, v |-> 4, key |-> 0, length |-> 500,  capacity |-> 60],
       [u |-> 4, v |-> 2, key |-> 0, length |-> 10,   capacity |-> 90] >>

NodosCatalogo == <<1, 2, 3, 4>>

\* the street graphs: any choice among the first MaxAristas candidate edges
Multigrafos ==
    { MultiDiGraph(NodosCatalogo, Escoger(Catalogo, S, 1)) :
        S \in SUBSET {n \in 1..Len(Catalogo) : n <= MaxAristas} }

\* severity and required speed of an emergency (the speed within the band
\* of the severity for R_min = 30, R_max = 90)
Perfiles ==
    { [severidad |-> "leve",  velocidad_requerida |-> 40],
      [severidad |-> "media", velocidad_requerida |-> 60],
      [severidad |-> "grave", velocidad_requerida |-> 80] }

\* the emergency lists: ids 1..n, destinations distinct, not the origin, and
\* listed in increasing order (the flows of a model do not depend on the
\* order of the list)
ListasEmergencias(origen) ==
    UNION { { [k \in 1..n |->
                 [id |-> k,
                  severidad |-> ps[k].severidad,
                  velocidad_requerida |-> ps[k].velocidad_requerida,
                  nodo_destino |-> ds[k]]] :
              ps \in [1..n -> Perfiles],
              ds \in {d \in [1..n -> Rango(NodosCatalogo) \ {origen}] :
                        \A a, b \in 1..n : a < b => d[a] < d[b]} } :
            n \in 1..MaxEmergencias }

\* the cost tables a caller passes: none, or a row for severity leve
TablasCostosUsuario ==
    { SinCostosUsuario,
      [s \in {"leve"} |-> [costo_fijo |-> 40000, costo_km |-> 6000]] }

Init ==
    /\ pc = "crear"
    /\ multi_grafo \in Multigrafos
    /\ nodo_origen = 1
    /\ emergencias \in ListasEmergencias(nodo_origen)
    /\ costos_usuario \in TablasCostosUsuario
    /\ grafo = None
    /\ regrafo = None
    /\ modelo = None
    /\ x = None
    /\ terminacion = None
    /\ estado = None
    /\ valor_objetivo = None
    /\ rutas = None
    /\ detalles_flujos = None
    /\ uso_aristas = None
    /\ resultados = None
    /\ azar = None
    /\ args = None
    /\ corridas = <<>>

\* AmbulanceOptimizationModel.__init__ (lines 705-711 call it)
Crear ==
    /\ pc = "crear"
    /\ grafo' = Simplificar(multi_grafo)
    /\ pc' = "construir"
    /\ UNCHANGED <<multi_grafo, regrafo, emergencias, nodo_origen,
                   costos_usuario, modelo, x, terminacion, estado,
                   valor_objetivo, rutas, detalles_flujos, uso_aristas,
                   resultados>>
    /\ UNCHANGED <<azar, args, corridas>>

\* construir_modelo: the variables, the objective and the rows are those of
\* FuncionObjetivo, RestriccionConservacionFlujo and RestriccionCapacidadVias
\* over self.grafo and self.emergencias
ConstruirModelo ==
    /\ pc = "construir"
    /\ modelo' = "Ruteo_Ambulancias"
    /\ pc' = "resolver"
    /\ UNCHANGED <<multi_grafo, grafo, regrafo, emergencias, nodo_origen,
                   costos_usuario, x, terminacion, estado, valor_objetivo,
                   rutas, detalles_flujos, uso_aristas, resultados>>
    /\ UNCHANGED <<azar, args, corridas>>

\* resolver: the solver ends its search (a solution within gapRel of the
\* optimum, or the proof that there is none), or it stops at timeLimit (with
\* whatever feasible solution it holds, reported as Optimal, or with none)
Resolver ==
    /\ pc = "resolver"
    /\ modelo # None
    /\ LET F == Factibles(grafo, emergencias, nodo_origen)
       IN  \/ /\ F = {}
              /\ terminacion' = "completa"
              /\ estado' = "Infeasible"
              /\ UNCHANGED <<x, valor_objetivo>>
           \/ \E xx \in DentroDelGap(grafo, emergencias, costos_usuario, F) :
                 /\ terminacion' = "completa"
                 /\ estado' = "Optimal"
                 /\ x' = xx
                 /\ valor_objetivo' =
                        FuncionObjetivo(grafo, emergencias, costos_usuario, xx)
           \/ \E xx \in F :
                 /\ terminacion' = "limite"
                 /\ estado' = "Optimal"
                 /\ x' = xx
                 /\ valor_objetivo' =
                        FuncionObjetivo(grafo, emergencias, costos_usuario, xx)
           \/ /\ terminacion' = "limite"
              /\ estado' = "Not Solved"
              /\ UNCHANGED <<x, valor_objetivo>>
    /\ pc' = "extraer"
    /\ UNCHANGED <<multi_grafo, grafo, regrafo, emergencias, nodo_origen,
                   costos_usuario, modelo, rutas, detalles_flujos,
                   uso_aristas, resultados>>
    /\ UNCHANGED <<azar, args, corridas>>

\* lines 718-719 with extraer_resultados (lines 436-461)
ExtraerResultados ==
    /\ pc = "extraer"
    /\ estado = "Optimal"
    /\ LET rs == ReconstruirRutas(grafo, emergencias, nodo_origen, x)
           ds == CalcularDetallesFlujos(grafo, emergencias, costos_usuario, x, rs)
           us == CalcularUsoAristas(grafo, emergencias, x)
       IN  /\ rutas' = rs
           /\ detalles_flujos' = ds
           /\ uso_aristas' = us
           /\ resultados' = [estado |-> estado,
                             costo_total |-> valor_objetivo,
                             tiempo_resolucion |-> "fin - inicio",
                             rutas |-> rs,
                             detalles |-> ds,
                             uso_aristas |-> us]
    /\ pc' = "fin"
    /\ UNCHANGED <<multi_grafo, grafo, regrafo, emergencias, nodo_origen,
                   costos_usuario, modelo, x, terminacion, estado,
                   valor_objetivo>>
    /\ UNCHANGED <<azar, args, corridas>>

\* lines 720-726: the result of a solve that did not end Optimal
SinSolucion ==
    /\ pc = "extraer"
    /\ estado # "Optimal"
    /\ resultados' = [estado |-> estado,
                      costo_total |-> None,
                      tiempo_resolucion |-> "fin - inicio",
                      mensaje |-> ObtenerMensajeInfactibilidad(estado)]
    /\ pc' = "fin"
    /\ UNCHANGED <<multi_grafo, grafo, regrafo, emergencias, nodo_origen,
                   costos_usuario, modelo, x, terminacion, estado,
                   valor_objetivo, rutas, detalles_flujos, uso_aristas>>
    /\ UNCHANGED <<azar, args, corridas>>

Next == Crear \/ ConstruirModelo \/ Resolver \/ ExtraerResultados \/ SinSolucion

Spec == Init /\ [][Next]_vars

-----------------------------------------------------------------------------
(* Claims about a run.  The paths of the oracle are enumerated as node     *)
(* sequences, independently of the flow program.                           *)

K == Len(emergencias)

Capacidad(e) == Arista(grafo, e[1], e[2]).capacity

\* the flows with x = 1 on edge e
FlujosEn(e) == {k \in 1..K : e \in x[k]}

\* the sum of the required speeds of the flows in ks
SumaVelocidades(ks) ==
    SumaSobre([k \in ks |-> emergencias[k].velocidad_requerida], ks)

\* the simple paths from o to d, as node sequences, over the edge set E
CaminosSimples(E, o, d) ==
    {p \in UNION {[1..n -> Rango(grafo.nodos)] : n \in 2..Len(grafo.nodos)} :
        /\ p[1] = o
        /\ p[Len(p)] = d
        /\ \A a, b \in 1..Len(p) : a # b => p[a] # p[b]
        /\ \A a \in 1..(Len(p) - 1) : <<p[a], p[a + 1]>> \in E}

\* the metres of the node sequence p
LongitudCamino(p) ==
    SumaSobre([a \in 1..(Len(p) - 1) |-> Arista(grafo, p[a], p[a + 1]).length],
              1..(Len(p) - 1))

\* the metres of the shortest of the paths ps (ps not empty)
LongitudMinima(ps) ==
    CHOOSE m \in {LongitudCamino(p) : p \in ps} :
        \A p \in ps : m <= LongitudCamino(p)

\* the edges whose capacity admits the speed r
AristasCapaces(r) == {e \in Aristas(grafo) : Capacidad(e) >= r}

\* C1: in every Optimal result, on every edge of the simplified graph the
\* required speeds of the flows that use the edge add up to at most the
\* capacity of the edge, and every entry of uso_aristas has utilizacion <= 1.
C1_CapacidadRespetada ==
    (pc = "fin" /\ estado = "Optimal") =>
        /\ \A e \in Aristas(grafo) : SumaVelocidades(FlujosEn(e)) <= Capacidad(e)
        /\ \A e \in DOMAIN resultados.uso_aristas :
              resultados.uso_aristas[e].utilizacion.num
                 <= resultados.uso_aristas[e].utilizacion.den

\* an Optimal result in which two flows share an edge
C1_Witness ==
    /\ pc = "fin"
    /\ estado = "Optimal"
    /\ \E e \in Aristas(grafo) : Cardinality(FlujosEn(e)) = 2

RECURSIVE EsCaminata(_, _, _)
\* the edges of P, each used once, form a directed walk from a to d (the walk
\* may pass through a node more than once)
EsCaminata(P, a, d) ==
    IF P = {} THEN a = d
    ELSE \E e \in P : e[1] = a /\ EsCaminata(P \ {e}, e[2], d)

\* as many edges of R enter every node as leave it: R is a union of cycles
Balanceado(R) ==
    \A n \in Rango(grafo.nodos) :
        Cardinality({e \in R : e[1] = n}) = Cardinality({e \in R : e[2] = n})

\* the nodes that the edges of S touch
NodosDe(S) == {e[1] : e \in S} \cup {e[2] : e \in S}

\* out-degree minus in-degree of node n in the edge set S
Neto(S, n) ==
    Cardinality({e \in S : e[1] = n}) - Cardinality({e \in S : e[2] = n})

\* C2: in every Optimal solution the edges of each flow k conserve flow
\* (out - in is +1 at the origin, -1 at the destination of k, 0 elsewhere)
\* and are a directed walk from the origin to the destination of k plus
\* cycles that share no edge and no node with that walk.
C2_CaminataMasCiclos ==
    estado = "Optimal" =>
        \A k \in 1..K :
            /\ \A n \in Rango(grafo.nodos) :
                  Neto(x[k], n) =
                     IF n = nodo_origen THEN 1
                     ELSE IF n = emergencias[k].nodo_destino THEN -1 ELSE 0
            /\ \E P \in SUBSET x[k] :
                  /\ EsCaminata(P, nodo_origen, emergencias[k].nodo_destino)
                  /\ Balanceado(x[k] \ P)
                  /\ NodosDe(P) \cap NodosDe(x[k] \ P) = {}

\* an Optimal solution in which a flow has a cycle apart from its walk
C2_Witness ==
    /\ estado = "Optimal"
    /\ \E k \in 1..K : \E P \in SUBSET x[k] :
          /\ EsCaminata(P, nodo_origen, emergencias[k].nodo_destino)
          /\ x[k] \ P # {}
          /\ Balanceado(x[k] \ P)
          /\ NodosDe(P) \cap NodosDe(x[k] \ P) = {}

\* C3: in every Optimal result costo_total is the sum over the emergencies
\* of costo_fijo + distancia_km * costo_km as reported in detalles, with the
\* distance of the reconstructed route and the row of the user when given.
C3_CostoTotalSumaDetalles ==
    (pc = "fin" /\ estado = "Optimal") =>
        /\ \A k \in 1..K :
              LET d   == resultados.detalles[k]
                  sev == emergencias[k].severidad
                  cf  == IF sev \in DOMAIN costos_usuario
                         THEN costos_usuario[sev].costo_fijo
                         ELSE COSTOS[PRIORIDAD_A_AMBULANCIA[sev]].costo_fijo_activacion
                  ck  == IF sev \in DOMAIN costos_usuario
                         THEN costos_usuario[sev].costo_km
                         ELSE COSTOS[PRIORIDAD_A_AMBULANCIA[sev]].costo_por_km
              IN  /\ d.distancia_km = LongitudCamino(resultados.rutas[k])
                  /\ d.costo_total = 1000 * cf + d.distancia_km * ck
        /\ resultados.costo_total =
              SumaSobre([k \in 1..K |-> resultados.detalles[k].costo_total], 1..K)

\* the emergency list has exactly one emergency
UnaEmergencia == K = 1

EsS2 ==
    /\ Rango(multi_grafo.aristas) =
          { [u |-> 1, v |-> 2, key |-> 0, length |-> 1000, capacity |-> 60],
            [u |-> 2, v |-> 4, key |-> 0, length |-> 1000, capacity |-> 60],
            [u |-> 1, v |-> 3, key |-> 0, length |-> 2000, capacity |-> 60],
            [u |-> 3, v |-> 4, key |-> 0, length |-> 500,  capacity |-> 60] }
    /\ emergencias = <<[id |-> 1, severidad |-> "leve",
                        velocidad_requerida |-> 40, nodo_destino |-> 4]>>
    /\ DOMAIN costos_usuario = {}

\* C5 as stated, for a solve that ended its search: on S2 the optimal route
\* is the 2500 m path and the total cost is 35000 + 2.5 * 5585 = 48962.5.
C5_Original ==
    (EsS2 /\ pc = "fin" /\ terminacion = "completa" /\ estado = "Optimal") =>
        /\ resultados.rutas[1] = <<1, 3, 4>>
        /\ resultados.detalles[1].distancia_km = 2500
        /\ resultados.costo_total = 48962500

\* C5 amended: on S2, when the solver ends its search, the status is Optimal,
\* the route is the 2000 m path 1 -> 2 -> 4 and the total cost is
\* 35000 + 2.0 * 5585 = 46170.
C5_EscenarioS2 ==
    (EsS2 /\ pc = "fin" /\ terminacion = "completa") =>
        /\ resultados.estado = "Optimal"
        /\ resultados.rutas = <<<<1, 2, 4>>>>
        /\ resultados.detalles[1].distancia_km = 2000
        /\ resultados.detalles[1].costo_total = 46170000
        /\ resultados.costo_total = 46170000

\* the run on S2 has returned after a completed solve
C5_Witness == EsS2 /\ pc = "fin" /\ terminacion = "completa"

Inevitable(e, k) ==
    CaminosSimples(Aristas(grafo) \ {e}, nodo_origen,
                   emergencias[k].nodo_destino) = {}

\* there are two emergencies and an edge that neither can avoid, whose
\* capacity is less than the sum of their required speeds
CuelloDeBotella ==
    /\ K = 2
    /\ \E e \in Aristas(grafo) :
          /\ Inevitable(e, 1)
          /\ Inevitable(e, 2)
          /\ Capacidad(e) < emergencias[1].velocidad_requerida
                              + emergencias[2].velocidad_requerida

\* C7 as stated: two emergencies that cannot avoid a common edge whose
\* capacity is less than the sum of their speeds get status Infeasible and a
\* result that carries the infeasibility diagnosis and no routes.
C7_Original ==
    (pc = "fin" /\ CuelloDeBotella) =>
        /\ resultados.estado = "Infeasible"
        /\ resultados.mensaje = MensajeInfactible
        /\ "rutas" \notin DOMAIN resultados

\* C7 amended: in that situation the result never has routes or a cost; when
\* the solver ends its search the status is Infeasible and the message is the
\* infeasibility diagnosis; when the solver is stopped by its time limit the
\* status is Not Solved and the message only names that status.
C7_CuelloDeBotellaInfactible ==
    (pc = "fin" /\ CuelloDeBotella) =>
        /\ "rutas" \notin DOMAIN resultados
        /\ resultados.costo_total = None
        /\ terminacion = "completa" =>
              /\ resultados.estado = "Infeasible"
              /\ resultados.mensaje = MensajeInfactible
        /\ terminacion = "limite" =>
              /\ resultados.estado = "Not Solved"
              /\ resultados.mensaje = <<"Estado del solver: ", "Not Solved">>

\* two emergencies, each of which alone fits the edge both must use, have
\* been found Infeasible together
C7_Witness ==
    /\ pc = "fin"
    /\ K = 2
    /\ terminacion = "completa"
    /\ resultados.estado = "Infeasible"
    /\ \E e \in Aristas(grafo) :
          /\ Inevitable(e, 1)
          /\ Inevitable(e, 2)
          /\ CaminosSimples(Aristas(grafo), nodo_origen,
                            emergencias[1].nodo_destino) # {}
          /\ CaminosSimples(Aristas(grafo), nodo_origen,
                            emergencias[2].nodo_destino) # {}
          /\ Capacidad(e) >= emergencias[1].velocidad_requerida
          /\ Capacidad(e) >= emergencias[2].velocidad_requerida
          /\ Capacidad(e) < emergencias[1].velocidad_requerida
                              + emergencias[2].velocidad_requerida

\* C8: uso_aristas has an entry for exactly the edges used by at least one
\* flow; the entry lists exactly the flows with x = 1 on the edge, num_flujos
\* is their number, carga_total the sum of their required speeds, capacidad
\* the capacity of the edge and utilizacion = carga_total / capacidad.
C8_UsoAristas ==
    (pc = "fin" /\ estado = "Optimal") =>
        LET uso == resultados.uso_aristas
        IN  /\ DOMAIN uso = {e \in Aristas(grafo) : FlujosEn(e) # {}}
            /\ \A e \in DOMAIN uso :
                  /\ Rango(uso[e].flujos_ids) = FlujosEn(e)
                  /\ Len(uso[e].flujos_ids) = Cardinality(FlujosEn(e))
                  /\ uso[e].num_flujos = Cardinality(FlujosEn(e))
                  /\ uso[e].carga_total = SumaVelocidades(FlujosEn(e))
                  /\ uso[e].capacidad = Capacidad(e)
                  /\ uso[e].utilizacion =
                        [num |-> uso[e].carga_total, den |-> uso[e].capacidad]

\* two flows of speed 40 on an edge of capacity 90: num_flujos = 2, load 80,
\* utilization 80/90, beside an edge of the graph that no flow uses
C8_Witness ==
    /\ pc = "fin"
    /\ estado = "Optimal"
    /\ \E e \in DOMAIN resultados.uso_aristas :
          /\ resultados.uso_aristas[e].num_flujos = 2
          /\ resultados.uso_aristas[e].carga_total = 80
          /\ resultados.uso_aristas[e].utilizacion = [num |-> 80, den |-> 90]
    /\ DOMAIN resultados.uso_aristas # Aristas(grafo)

-----------------------------------------------------------------------------
(* The collapse on its own: a street multigraph over three nodes whose     *)
(* ordered pairs (1,2) and (2,1) carry 0..MaxParalelas parallel edges.     *)

NodosColapso == <<1, 2, 3>>

AtributosColapso ==
    { [length |-> 1000, capacity |-> 60],
      [length |-> 10,   capacity |-> 60],
      [length |-> 1200, capacity |-> 90] }

\* every sequence of at most MaxParalelas attribute dicts
DatosParalelas ==
    UNION { [1..n -> AtributosColapso] : n \in 0..MaxParalelas }

\* the parallels i -> j with keys 0, 1, ... carrying the dicts ds
AristasDe(i, j, ds) ==
    [n \in 1..Len(ds) |->
        [u |-> i, v |-> j, key |-> n - 1,
         length |-> ds[n].length, capacity |-> ds[n].capacity]]

MultigrafosColapso ==
    { MultiDiGraph(NodosColapso, AristasDe(1, 2, d12) \o AristasDe(2, 1, d21)) :
        d12 \in DatosParalelas, d21 \in DatosParalelas }

InitColapso ==
    /\ pc = "entrada"
    /\ multi_grafo \in MultigrafosColapso
    /\ grafo = None
    /\ regrafo = None
    /\ emergencias = <<>>
    /\ nodo_origen = 1
    /\ costos_usuario = None
    /\ modelo = None
    /\ x = None
    /\ terminacion = None
    /\ estado = None
    /\ valor_objetivo = None
    /\ rutas = None
    /\ detalles_flujos = None
    /\ uso_aristas = None
    /\ resultados = None
    /\ azar = None
    /\ args = None
    /\ corridas = <<>>

\* self.grafo = self._simplificar_a_digraph(grafo)
Colapsar ==
    /\ pc = "entrada"
    /\ grafo' = Simplificar(multi_grafo)
    /\ pc' = "colapsado"
    /\ UNCHANGED <<multi_grafo, regrafo, emergencias, nodo_origen,
                   costos_usuario, modelo, x, terminacion, estado,
                   valor_objetivo, rutas, detalles_flujos, uso_aristas,
                   resultados>>
    /\ UNCHANGED <<azar, args, corridas>>

\* the collapse applied to the graph it returned
Recolapsar ==
    /\ pc = "colapsado"
    /\ regrafo' = Simplificar(grafo)
    /\ pc' = "recolapsado"
    /\ UNCHANGED <<multi_grafo, grafo, emergencias, nodo_origen,
                   costos_usuario, modelo, x, terminacion, estado,
                   valor_objetivo, rutas, detalles_flujos, uso_aristas,
                   resultados>>
    /\ UNCHANGED <<azar, args, corridas>>

NextColapso == Colapsar \/ Recolapsar

SpecColapso == InitColapso /\ [][NextColapso]_vars

-----------------------------------------------------------------------------
(* Claims about the collapse.                                              *)

\* the ordered pairs that have an edge in g
Pares(g) == {<<g.aristas[n].u, g.aristas[n].v>> : n \in 1..Len(g.aristas)}

\* the edges of g from i to j
AristasPar(g, i, j) ==
    {n \in 1..Len(g.aristas) : g.aristas[n].u = i /\ g.aristas[n].v = j}

\* C9: the collapsed graph has exactly one edge for every ordered pair that
\* has an edge in the multigraph and none for any other pair; its capacity is
\* the largest capacity among the parallels of the pair, and its length is
\* the length of a parallel that has that capacity.
C9_ColapsoMaximaCapacidad ==
    pc # "entrada" =>
        /\ grafo.tipo = "DiGraph"
        /\ Pares(grafo) = Pares(multi_grafo)
        /\ \A p \in Pares(grafo) : Cardinality(AristasPar(grafo, p[1], p[2])) = 1
        /\ \A n \in 1..Len(grafo.aristas) :
              LET a  == grafo.aristas[n]
                  ps == AristasPar(multi_grafo, a.u, a.v)
              IN  /\ \A m \in ps : multi_grafo.aristas[m].capacity <= a.capacity
                  /\ \E m \in ps :
                        /\ multi_grafo.aristas[m].capacity = a.capacity
                        /\ multi_grafo.aristas[m].length = a.length

\* a pair with parallels of different capacities, the largest not the first,
\* has been collapsed
C9_Witness ==
    /\ pc = "colapsado"
    /\ \E m1, m2 \in 1..Len(multi_grafo.aristas) :
          /\ m1 < m2
          /\ multi_grafo.aristas[m1].u = multi_grafo.aristas[m2].u
          /\ multi_grafo.aristas[m1].v = multi_grafo.aristas[m2].v
          /\ multi_grafo.aristas[m1].capacity < multi_grafo.aristas[m2].capacity
          /\ multi_grafo.aristas[m1].length # multi_grafo.aristas[m2].length

SinParalelas(mg) ==
    \A p \in Pares(mg) : Cardinality(AristasPar(mg, p[1], p[2])) = 1

\* the nodes, edges and edge attributes of g, without the edge keys
Contenido(g) ==
    [nodos   |-> g.nodos,
     aristas |-> [n \in 1..Len(g.aristas) |->
                    [u |-> g.aristas[n].u, v |-> g.aristas[n].v,
                     length |-> g.aristas[n].length,
                     capacity |-> g.aristas[n].capacity]]]

\* C10 as stated: the collapse applied to the simple graph the collapse
\* produced returns that same graph.
C10_Original ==
    pc = "recolapsado" =>
        /\ regrafo.tipo = "DiGraph"
        /\ Contenido(regrafo) = Contenido(grafo)

\* C10, what the collapse does: a MultiDiGraph that has at most one edge per
\* ordered pair keeps its nodes, edges and edge attributes; the collapse reads
\* its argument as a MultiDiGraph, so applied to the DiGraph it returned it
\* raises TypeError and returns no graph.
C10_ColapsoDeSimple ==
    /\ (pc # "entrada" /\ SinParalelas(multi_grafo)) =>
          /\ grafo.tipo = "DiGraph"
          /\ Contenido(grafo) = Contenido(multi_grafo)
    /\ pc = "recolapsado" => regrafo = TypeError

\* a multigraph without parallels, with edges and an isolated node, has been
\* collapsed and the collapse has been applied again
C10_Witness ==
    /\ pc = "recolapsado"
    /\ SinParalelas(multi_grafo)
    /\ Len(multi_grafo.aristas) = 2


-----------------------------------------------------------------------------
(* The module random.  A generator seeded with s yields the stream of s:   *)
(* the n-th draw after random.seed(s) has the same value whenever it is    *)
(* made.  azar = [semilla, pos, tabla]: the seed in force, the number of   *)
(* draws made since it was set, and the draws made so far of each stream,  *)
(* tabla[<<s, n>>].  A draw is a value of Bits, from which uniform,        *)
(* choice, randint and sample compute their result.                        *)

\* the seed of the generator before the program sets one (import random)
SemillaDelSistema == 0

\* the values of one draw
Bits == {0, 1, 2}

\* random() of a draw, in tenths: a value of [0, 1)
Fraccion == <<0, 5, 9>>

AzarInicial ==
    [semilla |-> SemillaDelSistema, pos |-> 0, tabla |-> [c \in {} |-> 0]]

\* the position in tabla of the n-th of the next draws of a
Clave(a, n) == <<a.semilla, a.pos + n - 1>>

\* the stream of a allows bs as its next draws
Admite(a, bs) ==
    \A n \in 1..Len(bs) :
        Clave(a, n) \in DOMAIN a.tabla => a.tabla[Clave(a, n)] = bs[n]

\* the generator after the draws bs
Tirar(a, bs) ==
    LET nuevas == {Clave(a, n) : n \in 1..Len(bs)}
    IN  [semilla |-> a.semilla,
         pos     |-> a.pos + Len(bs),
         tabla   |-> [c \in DOMAIN a.tabla \cup nuevas |->
                        IF c \in DOMAIN a.tabla THEN a.tabla[c]
                        ELSE bs[c[2] - a.pos + 1]]]

\* random.seed(s): the stream of s from its start
seed(a, s) == [a EXCEPT !.semilla = s, !.pos = 0]

\* random.uniform(a, b) = a + (b - a) * random()
uniform(a, b, bit) == a + ((b - a) * Fraccion[bit + 1]) \div 10

\* random.choice(seq)
choice(seq, bit) == seq[(bit % Len(seq)) + 1]

\* random.randint(a, b)
randint(a, b, bit) == a + (bit % (b - a + 1))

\* seq without its n-th element
Quitar(seq, n) == SubSeq(seq, 1, n - 1) \o SubSeq(seq, n + 1, Len(seq))

\* mutant: the destinations are drawn with replacement
sample_con_reemplazo(population, k, bits) ==
    [i \in 1..k |-> population[(bits[i] % Len(population)) + 1]]

RECURSIVE sample(_, _, _)
\* random.sample(population, k) with k <= len(population): k elements drawn
\* without replacement, one draw each (bits has k draws)
sample(population, k, bits) ==
    IF k = 0 THEN <<>>
    ELSE LET n == (bits[1] % Len(population)) + 1
         IN  <<population[n]>> \o sample(Quitar(population, n), k - 1, Tail(bits))


-----------------------------------------------------------------------------
(* config/parametros.py: the speed bands and the generation of the         *)
(* emergencies.  An optional argument is <<>> when omitted and <<v>> when  *)
(* given.                                                                  *)

R_MIN == 30
R_MAX == 90
RANGO_TOTAL == R_MAX - R_MIN
TERCIO == RANGO_TOTAL \div 3

RANGOS_EMERGENCIA ==
    [leve  |-> [min |-> R_MIN,              max |-> R_MIN + TERCIO],
     media |-> [min |-> R_MIN + TERCIO,     max |-> R_MIN + 2 * TERCIO],
     grave |-> [min |-> R_MIN + 2 * TERCIO, max |-> R_MAX]]

NUM_EMERGENCIAS_MIN == 3
NUM_EMERGENCIAS_MAX == 5
RANDOM_SEED == 42

\* mutant: the speed is drawn from the whole range [R_MIN, R_MAX]
generar_velocidad_emergencia_rango_total(severidad, bit) ==
    uniform(R_MIN, R_MAX, bit)

\* generar_velocidad_emergencia (severidad is one of the three keys)
generar_velocidad_emergencia(severidad, bit) ==
    uniform(RANGOS_EMERGENCIA[severidad].min, RANGOS_EMERGENCIA[severidad].max,
            bit)

\* generar_severidad_aleatoria
generar_severidad_aleatoria(bit) == choice(<<"leve", "media", "grave">>, bit)

\* generar_num_emergencias
generar_num_emergencias(bit) ==
    randint(NUM_EMERGENCIAS_MIN, NUM_EMERGENCIAS_MAX, bit)

\* lines 118-131: the list built by the loop, emergency i from the draws
\* bits[2i - 1] (severity) and bits[2i] (speed)
generar_conjunto_emergencias(num_emergencias, bits) ==
    [i \in 1..num_emergencias |->
        LET severidad == generar_severidad_aleatoria(bits[2 * i - 1])
        IN  [id                  |-> i,
             severidad           |-> severidad,
             velocidad_requerida |->
                 generar_velocidad_emergencia(severidad, bits[2 * i]),
             ambulancia_id       |-> i,
             origen              |-> "Clinica Medellin - Sede El Poblado"]]

\* mutant: the seed differs from one execution to the next
SetRandomSeed_porEjecucion ==
    /\ pc = "inicio"
    /\ azar' = seed(azar, Len(corridas)
                            + (IF args.semilla = <<>> THEN RANDOM_SEED
                               ELSE args.semilla[1]))
    /\ pc' = "sembrado"
    /\ UNCHANGED <<multi_grafo, grafo, regrafo, emergencias, nodo_origen,
                   costos_usuario, modelo, x, terminacion, estado,
                   valor_objetivo, rutas, detalles_flujos, uso_aristas,
                   resultados, args, corridas>>

\* set_random_seed(seed)
SetRandomSeed ==
    /\ pc = "inicio"
    /\ azar' = seed(azar, IF args.semilla = <<>> THEN RANDOM_SEED
                          ELSE args.semilla[1])
    /\ pc' = "sembrado"
    /\ UNCHANGED <<multi_grafo, grafo, regrafo, emergencias, nodo_origen,
                   costos_usuario, modelo, x, terminacion, estado,
                   valor_objetivo, rutas, detalles_flujos, uso_aristas,
                   resultados, args, corridas>>

\* generar_conjunto_emergencias(num_emergencias): the number is drawn when
\* the argument is omitted (lines 115-116), then two draws per emergency
GenerarConjuntoEmergencias ==
    /\ pc = "sembrado"
    /\ \E primeras \in (IF args.num_emergencias = <<>>
                        THEN [1..1 -> Bits] ELSE {<<>>}) :
          LET num_emergencias ==
                  IF args.num_emergencias = <<>>
                  THEN generar_num_emergencias(primeras[1])
                  ELSE args.num_emergencias[1]
          IN  \E bits \in [1..(2 * num_emergencias) -> Bits] :
                 /\ Admite(azar, primeras \o bits)
                 /\ azar' = Tirar(azar, primeras \o bits)
                 /\ emergencias' =
                        generar_conjunto_emergencias(num_emergencias, bits)
    /\ pc' = "generado"
    /\ UNCHANGED <<multi_grafo, grafo, regrafo, nodo_origen,
                   costos_usuario, modelo, x, terminacion, estado,
                   valor_objetivo, rutas, detalles_flujos, uso_aristas,
                   resultados, args, corridas>>

-----------------------------------------------------------------------------
(* The generation on its own: set_random_seed, then                        *)
(* generar_conjunto_emergencias with or without its argument.              *)

ArgsGenerar ==
    [semilla : {<<>>, <<7>>}, num_emergencias : {<<>>, <<0>>, <<1>>, <<2>>}]

InitGenerar ==
    /\ pc = "inicio"
    /\ args \in ArgsGenerar
    /\ azar = AzarInicial
    /\ corridas = <<>>
    /\ multi_grafo = None
    /\ grafo = None
    /\ regrafo = None
    /\ emergencias = None
    /\ nodo_origen = None
    /\ costos_usuario = None
    /\ modelo = None
    /\ x = None
    /\ terminacion = None
    /\ estado = None
    /\ valor_objetivo = None
    /\ rutas = None
    /\ detalles_flujos = None
    /\ uso_aristas = None
    /\ resultados = None

NextGenerar == SetRandomSeed \/ GenerarConjuntoEmergencias

SpecGenerar == InitGenerar /\ [][NextGenerar]_vars

\* speed v lies in the j-th third (j = 0, 1, 2) of [lo, hi]
EnTercio(v, j, lo, hi) ==
    /\ 3 * v >= 3 * lo + j * (hi - lo)
    /\ 3 * v <= 3 * lo + (j + 1) * (hi - lo)

\* the place of a severity among the thirds
Orden(severidad) ==
    IF severidad = "leve" THEN 0 ELSE IF severidad = "media" THEN 1 ELSE 2

\* C19: generar_conjunto_emergencias(n) returns exactly n emergencies with
\* ids 1..n in order, each with a severity among leve, media, grave and a
\* speed inside the third of [R_MIN, R_MAX] of that severity (leve lowest,
\* media middle, grave highest); when n is omitted, 3 <= n <= 5.
C19_ConjuntoEmergencias ==
    pc = "generado" =>
        /\ args.num_emergencias # <<>> =>
              Len(emergencias) = args.num_emergencias[1]
        /\ args.num_emergencias = <<>> =>
              Len(emergencias) >= 3 /\ Len(emergencias) <= 5
        /\ \A i \in 1..Len(emergencias) :
              /\ emergencias[i].id = i
              /\ emergencias[i].severidad \in {"leve", "media", "grave"}
              /\ EnTercio(emergencias[i].velocidad_requerida,
                          Orden(emergencias[i].severidad), R_MIN, R_MAX)

\* five emergencies were generated without the argument, with the three
\* severities among them
C19_Witness ==
    /\ pc = "generado"
    /\ args.num_emergencias = <<>>
    /\ Len(emergencias) = 5
    /\ {emergencias[i].severidad : i \in 1..5} = {"leve", "media", "grave"}


-----------------------------------------------------------------------------
(* src/data/graph_processor.py: the preparation of the street graph.  The  *)
(* graph is [tipo, nodos, aristas, datos]: its edges are attribute dicts   *)
(* with u, v, key and whichever of length, capacity, travel_time they      *)
(* carry; datos[n] is the attribute dict of node n.  travel_time is the    *)
(* ratio [num, den] in minutes.  An exception is the record [tipo].        *)

ValueError == [tipo |-> "ValueError"]
ZeroDivisionError == [tipo |-> "ZeroDivisionError"]

\* mutant: the draw ignores the lower bound
asignar_capacidades_desde_cero(aristas, c_min, c_max, bits) ==
    [n \in 1..Len(aristas) |->
        [capacity |-> uniform(0, c_max, bits[n])] @@ aristas[n]]

\* lines 80-85: every edge (u, v, key) gets a draw of its own
asignar_capacidades_aleatorias(aristas, c_min, c_max, bits) ==
    [n \in 1..Len(aristas) |->
        [capacity |-> uniform(c_min, c_max, bits[n])] @@ aristas[n]]

\* line 117: the edge has the attributes the travel time needs
TieneDatos(data) == "length" \in DOMAIN data /\ "capacity" \in DOMAIN data

\* lines 121-130: tiempo_min = longitud_m / (velocidad_kmh * 1000 / 60)
TiempoViaje(data) == [num |-> 60 * data.length, den |-> 1000 * data.capacity]

\* the first edge at which line 128 divides by zero, Len + 1 if none
PrimeraDivisionPorCero(aristas) ==
    LET malas == {n \in 1..Len(aristas) :
                    TieneDatos(aristas[n]) /\ aristas[n].capacity = 0}
    IN  IF malas = {} THEN Len(aristas) + 1
        ELSE CHOOSE n \in malas : \A m \in malas : n <= m

\* lines 115-132: the edges after the loop has run over those before
\* position hasta; an edge without length or capacity is skipped
calcular_tiempos_viaje(aristas, hasta) ==
    [n \in 1..Len(aristas) |->
        IF n < hasta /\ TieneDatos(aristas[n])
        THEN [travel_time |-> TiempoViaje(aristas[n])] @@ aristas[n]
        ELSE aristas[n]]

\* grafo.predecessors(nodo) and grafo.successors(nodo): neighbour nodes
Predecessors(g, nodo) == {g.aristas[n].u : n \in {m \in 1..Len(g.aristas) : g.aristas[m].v = nodo}}
Successors(g, nodo) == {g.aristas[n].v : n \in {m \in 1..Len(g.aristas) : g.aristas[m].u = nodo}}

\* the subsequence of seq of the elements in S
Filtrar(seq, S) == Escoger(seq, {n \in 1..Len(seq) : seq[n] \in S}, 1)

\* filtrar_nodos_internos
filtrar_nodos_internos(g, min_salidas, min_entradas) ==
    Filtrar(g.nodos,
            {nodo \in Rango(g.nodos) :
                /\ Cardinality(Predecessors(g, nodo)) >= min_entradas
                /\ Cardinality(Successors(g, nodo)) >= min_salidas})

\* mutant: the destinations are drawn from all the nodes
NodosAUsar_todos(g, emergs) == g.nodos

\* lines 275-280: the population the destinations are drawn from
NodosAUsar(g, emergs) ==
    LET nodos_internos == filtrar_nodos_internos(g, 3, 3)
    IN  IF Len(nodos_internos) < Len(emergs) THEN g.nodos ELSE nodos_internos

\* lines 287-296: the copy of each emergency with its node and coordinates
EmergenciasConNodos(g, emergs, nodos_seleccionados) ==
    [i \in 1..Len(emergs) |->
        [nodo_destino |-> nodos_seleccionados[i],
         latitud      |-> g.datos[nodos_seleccionados[i]].y,
         longitud     |-> g.datos[nodos_seleccionados[i]].x] @@ emergs[i]]

\* ox.distance.nearest_nodes(grafo, lon, lat): the square of the distance
Distancia2(g, nodo, lat, lon) ==
    (g.datos[nodo].y - lat) * (g.datos[nodo].y - lat)
      + (g.datos[nodo].x - lon) * (g.datos[nodo].x - lon)

\* encontrar_nodo_mas_cercano
encontrar_nodo_mas_cercano(g, lat, lon) ==
    CHOOSE nodo \in Rango(g.nodos) :
        \A otro \in Rango(g.nodos) :
            Distancia2(g, nodo, lat, lon) <= Distancia2(g, otro, lat, lon)


\* asignar_capacidades_aleatorias(grafo, c_min, c_max, seed): the seed when
\* given (lines 68-70), a draw per edge (lines 80-85); min(capacidades) of
\* line 88 raises ValueError when the graph has no edge
AsignarCapacidadesAleatorias ==
    /\ pc = "generado"
    /\ LET sembrado == IF args.seed = <<>> THEN azar
                       ELSE seed(azar, args.seed[1])
       IN  \E bits \in [1..Len(multi_grafo.aristas) -> Bits] :
              /\ Admite(sembrado, bits)
              /\ azar' = Tirar(sembrado, bits)
              /\ multi_grafo' =
                    [multi_grafo EXCEPT !.aristas =
                        asignar_capacidades_aleatorias(@, args.c_min,
                                                       args.c_max, bits)]
    /\ IF Len(multi_grafo.aristas) = 0
       THEN resultados' = ValueError /\ pc' = "error"
       ELSE pc' = "capacidades" /\ UNCHANGED resultados
    /\ UNCHANGED <<emergencias, nodo_origen, args, corridas>>
    /\ UNCHANGED <<grafo, regrafo, costos_usuario, modelo, x, terminacion,
                   estado, valor_objetivo, rutas, detalles_flujos,
                   uso_aristas>>

\* calcular_tiempos_viaje(grafo): line 128 raises ZeroDivisionError at an
\* edge of capacity 0, after the edges before it were given their time;
\* min(tiempos) of line 137 raises ValueError when every edge was skipped
CalcularTiemposViaje ==
    /\ pc = "capacidades"
    /\ LET hasta == PrimeraDivisionPorCero(multi_grafo.aristas)
           despues == calcular_tiempos_viaje(multi_grafo.aristas, hasta)
       IN  /\ multi_grafo' = [multi_grafo EXCEPT !.aristas = despues]
           /\ IF hasta <= Len(multi_grafo.aristas)
              THEN resultados' = ZeroDivisionError /\ pc' = "error"
              ELSE IF \A n \in 1..Len(despues) :
                         "travel_time" \notin DOMAIN despues[n]
                   THEN resultados' = ValueError /\ pc' = "error"
                   ELSE pc' = "tiempos" /\ UNCHANGED resultados
    /\ UNCHANGED <<emergencias, nodo_origen, azar, args, corridas>>
    /\ UNCHANGED <<grafo, regrafo, costos_usuario, modelo, x, terminacion,
                   estado, valor_objetivo, rutas, detalles_flujos,
                   uso_aristas>>

\* encontrar_nodo_origen(grafo, centro_lat, centro_lon)
EncontrarNodoOrigen ==
    /\ pc = "tiempos"
    /\ nodo_origen' = encontrar_nodo_mas_cercano(multi_grafo, args.centro_lat,
                                                 args.centro_lon)
    /\ pc' = "origen"
    /\ UNCHANGED <<multi_grafo, emergencias, resultados, azar, args, corridas>>
    /\ UNCHANGED <<grafo, regrafo, costos_usuario, modelo, x, terminacion,
                   estado, valor_objetivo, rutas, detalles_flujos,
                   uso_aristas>>

\* asignar_emergencias_a_nodos(grafo, emergencias, seed): the seed when given
\* (lines 258-259); random.sample of line 284 raises ValueError when there
\* are more emergencies than nodes to use
AsignarEmergenciasANodos ==
    /\ pc = "origen"
    /\ LET sembrado == IF args.seed = <<>> THEN azar
                       ELSE seed(azar, args.seed[1])
           nodos_a_usar == NodosAUsar(multi_grafo, emergencias)
       IN  IF Len(emergencias) > Len(nodos_a_usar)
           THEN /\ azar' = sembrado
                /\ resultados' = ValueError
                /\ pc' = "error"
           ELSE \E bits \in [1..Len(emergencias) -> Bits] :
                   /\ Admite(sembrado, bits)
                   /\ azar' = Tirar(sembrado, bits)
                   /\ resultados' =
                         EmergenciasConNodos(
                             multi_grafo, emergencias,
                             sample(nodos_a_usar, Len(emergencias), bits))
                   /\ pc' = "asignadas"
    /\ UNCHANGED <<multi_grafo, emergencias, nodo_origen, args, corridas>>
    /\ UNCHANGED <<grafo, regrafo, costos_usuario, modelo, x, terminacion,
                   estado, valor_objetivo, rutas, detalles_flujos,
                   uso_aristas>>

\* preparar_grafo_para_optimizacion, lines 345-361: the marks on the nodes
\* and the tuple returned
MarcarNodos ==
    /\ pc = "asignadas"
    /\ LET nodos_destino == {resultados[i].nodo_destino :
                                i \in 1..Len(resultados)}
           marcado ==
               [multi_grafo EXCEPT !.datos =
                   [nodo \in DOMAIN @ |->
                       [is_origin      |-> nodo = nodo_origen,
                        is_destination |-> nodo \in nodos_destino]
                         @@ @[nodo]]]
           retorno == [grafo                 |-> marcado,
                       nodo_origen           |-> nodo_origen,
                       emergencias_con_nodos |-> resultados]
       IN  /\ multi_grafo' = marcado
           /\ resultados' = retorno
           /\ corridas' = Append(corridas, retorno)
    /\ pc' = "preparado"
    /\ UNCHANGED <<emergencias, nodo_origen, azar, args>>
    /\ UNCHANGED <<grafo, regrafo, costos_usuario, modelo, x, terminacion,
                   estado, valor_objetivo, rutas, detalles_flujos,
                   uso_aristas>>

\* number of executions of the pipeline in a behaviour
MaxEjecuciones == 2

\* the pipeline is executed again on an equal input graph
OtraEjecucion ==
    /\ pc = "preparado"
    /\ Len(corridas) < MaxEjecuciones
    /\ multi_grafo' = args.grafo
    /\ emergencias' = None
    /\ nodo_origen' = None
    /\ resultados' = None
    /\ pc' = "inicio"
    /\ UNCHANGED <<azar, args, corridas>>
    /\ UNCHANGED <<grafo, regrafo, costos_usuario, modelo, x, terminacion,
                   estado, valor_objetivo, rutas, detalles_flujos,
                   uso_aristas>>


-----------------------------------------------------------------------------
(* The pipeline of preparar_datos.main: set_random_seed, the generation of *)
(* the emergencies, then preparar_grafo_para_optimizacion (capacities,     *)
(* travel times, origin, destinations, marks), executed MaxEjecuciones     *)
(* times on equal input graphs.                                            *)

\* the attribute dicts of the nodes (y latitude, x longitude)
Coordenadas ==
    [n \in 1..4 |-> [y |-> IF n \in {3, 4} THEN 10 ELSE 0,
                     x |-> IF n \in {2, 4} THEN 10 ELSE 0]]

GrafoPreparacion(ns, es) ==
    [tipo |-> "MultiDiGraph", nodos |-> ns, aristas |-> es,
     datos |-> [n \in Rango(ns) |-> Coordenadas[n]]]

\* an edge as OSM gives it, and an edge that lacks its length
Via(u, v, key, length) == [u |-> u, v |-> v, key |-> key, length |-> length]
ViaSinLongitud(u, v, key) == [u |-> u, v |-> v, key |-> key]

\* two parallel edges 1 -> 2 and an edge 2 -> 3; no node is interior
GrafoParalelas ==
    GrafoPreparacion(<<1, 2, 3>>,
        <<Via(1, 2, 0, 1000), Via(1, 2, 1, 2500), Via(2, 3, 0, 500)>>)

\* node 1 has three predecessors and three successors: the interior node
GrafoEstrella ==
    GrafoPreparacion(<<1, 2, 3, 4>>,
        <<Via(1, 2, 0, 100), Via(1, 3, 0, 200), Via(1, 4, 0, 300),
          Via(2, 1, 0, 100), Via(3, 1, 0, 200), Via(4, 1, 0, 300)>>)

\* the edge 2 -> 3 lacks its length
GrafoSinLongitud ==
    GrafoPreparacion(<<1, 2, 3>>,
        <<Via(1, 2, 0, 1000), ViaSinLongitud(2, 3, 0)>>)

\* a single node with a loop
GrafoUnNodo == GrafoPreparacion(<<1>>, <<Via(1, 1, 0, 100)>>)

\* no edge at all, and no edge with a length
GrafoSinAristas == GrafoPreparacion(<<1, 2>>, <<>>)
GrafoSinLongitudes == GrafoPreparacion(<<1, 2>>, <<ViaSinLongitud(1, 2, 0)>>)

\* the arguments of an execution: the default range of capacities on every
\* graph, the ranges that are no proper range, and the calls without seed
ArgsPreparar ==
    [grafo : {GrafoParalelas, GrafoEstrella, GrafoSinLongitud, GrafoUnNodo,
              GrafoSinAristas, GrafoSinLongitudes},
     semilla : {<<>>}, seed : {<<RANDOM_SEED>>},
     c_min : {30}, c_max : {100},
     num_emergencias : {<<n>> : n \in 1..MaxEmergencias},
     centro_lat : {1}, centro_lon : {1, 8}]
    \cup
    [grafo : {GrafoParalelas},
     semilla : {<<>>}, seed : {<<RANDOM_SEED>>},
     c_min : {100, 50, 0}, c_max : {50},
     num_emergencias : {<<1>>},
     centro_lat : {1}, centro_lon : {1}]
    \cup
    [grafo : {GrafoSinLongitud, GrafoUnNodo},
     semilla : {<<7>>}, seed : {<<>>},
     c_min : {30}, c_max : {100},
     num_emergencias : {<<n>> : n \in 1..MaxEmergencias},
     centro_lat : {1}, centro_lon : {1}]

InitPreparar ==
    /\ pc = "inicio"
    /\ args \in ArgsPreparar
    /\ multi_grafo = args.grafo
    /\ azar = AzarInicial
    /\ corridas = <<>>
    /\ grafo = None
    /\ regrafo = None
    /\ emergencias = None
    /\ nodo_origen = None
    /\ costos_usuario = None
    /\ modelo = None
    /\ x = None
    /\ terminacion = None
    /\ estado = None
    /\ valor_objetivo = None
    /\ rutas = None
    /\ detalles_flujos = None
    /\ uso_aristas = None
    /\ resultados = None

NextPreparar ==
    \/ SetRandomSeed
    \/ GenerarConjuntoEmergencias
    \/ AsignarCapacidadesAleatorias
    \/ CalcularTiemposViaje
    \/ EncontrarNodoOrigen
    \/ AsignarEmergenciasANodos
    \/ MarcarNodos
    \/ OtraEjecucion

SpecPreparar == InitPreparar /\ [][NextPreparar]_vars


\* asignar_capacidades_aleatorias has returned
CapacidadesAsignadas == pc = "capacidades"

\* C11: after the assignment of capacities all the parallel edges of an
\* ordered pair (u, v) carry the same capacity (one draw per pair).
C11_ParalelasIgualCapacidad ==
    CapacidadesAsignadas =>
        \A n, m \in 1..Len(multi_grafo.aristas) :
            (/\ multi_grafo.aristas[n].u = multi_grafo.aristas[m].u
             /\ multi_grafo.aristas[n].v = multi_grafo.aristas[m].v)
            => multi_grafo.aristas[n].capacity
                 = multi_grafo.aristas[m].capacity

\* two parallel edges got different capacities
C11_Witness ==
    /\ CapacidadesAsignadas
    /\ \E n, m \in 1..Len(multi_grafo.aristas) :
          /\ multi_grafo.aristas[n].u = multi_grafo.aristas[m].u
          /\ multi_grafo.aristas[n].v = multi_grafo.aristas[m].v
          /\ multi_grafo.aristas[n].capacity
               # multi_grafo.aristas[m].capacity

\* C12: after asignar_capacidades_aleatorias(grafo, c_min, c_max, seed)
\* with c_min < c_max every edge of the graph has a capacity, and
\* c_min <= capacity <= c_max.
C12_CapacidadEnRango ==
    (CapacidadesAsignadas /\ args.c_min < args.c_max) =>
        \A n \in 1..Len(multi_grafo.aristas) :
            /\ "capacity" \in DOMAIN multi_grafo.aristas[n]
            /\ args.c_min <= multi_grafo.aristas[n].capacity
            /\ multi_grafo.aristas[n].capacity <= args.c_max

\* three edges got three capacities of the range, the lower bound among them
C12_Witness ==
    /\ CapacidadesAsignadas
    /\ args.c_min < args.c_max
    /\ Len(multi_grafo.aristas) = 3
    /\ Cardinality({multi_grafo.aristas[n].capacity : n \in 1..3}) = 3
    /\ \E n \in 1..3 : multi_grafo.aristas[n].capacity = args.c_min

\* the range of capacities is no proper range
RangoInvalido ==
    args.c_min >= args.c_max \/ args.c_min <= 0 \/ args.c_max <= 0

\* C13: the assignment of capacities fails with InvalidRange and assigns
\* no capacity when c_min >= c_max or one of the bounds is not positive.
C13_RangoInvalidoFalla ==
    (RangoInvalido /\ pc \notin {"inicio", "sembrado", "generado"}) =>
        /\ pc = "error"
        /\ resultados = [tipo |-> "InvalidRange"]
        /\ \A n \in 1..Len(multi_grafo.aristas) :
              "capacity" \notin DOMAIN multi_grafo.aristas[n]

\* the assignment returned with c_min > c_max and gave capacities
C13_Witness ==
    /\ CapacidadesAsignadas
    /\ args.c_min > args.c_max
    /\ \A n \in 1..Len(multi_grafo.aristas) :
          "capacity" \in DOMAIN multi_grafo.aristas[n]

\* C14: the derivation of travel times never completes leaving an edge
\* that lacks its length or its capacity, or an edge without travel_time
\* (it fails with MissingAttribute instead).
C14_SinAtributoFalla ==
    pc = "tiempos" =>
        \A n \in 1..Len(multi_grafo.aristas) :
            /\ TieneDatos(multi_grafo.aristas[n])
            /\ "travel_time" \in DOMAIN multi_grafo.aristas[n]

\* the derivation returned and an edge without length has no travel_time
C14_Witness ==
    /\ pc = "tiempos"
    /\ \E n \in 1..Len(multi_grafo.aristas) :
          /\ "length" \notin DOMAIN multi_grafo.aristas[n]
          /\ "travel_time" \notin DOMAIN multi_grafo.aristas[n]

\* C15: the origin node is never assigned as the destination of an
\* emergency by asignar_emergencias_a_nodos within
\* preparar_grafo_para_optimizacion.
C15_OrigenNoEsDestino ==
    pc = "asignadas" =>
        \A i \in 1..Len(resultados) :
            resultados[i].nodo_destino # nodo_origen

\* an emergency was given the origin as destination
C15_Witness ==
    /\ pc = "asignadas"
    /\ \E i \in 1..Len(resultados) :
          resultados[i].nodo_destino = nodo_origen

\* the dict d without the keys of S
SinClaves(d, S) == [k \in DOMAIN d \ S |-> d[k]]

\* C16: asignar_emergencias_a_nodos returns one emergency per emergency
\* given, in the same order, and the values of nodo_destino are pairwise
\* distinct nodes of the graph.
C16_UnDestinoPorEmergencia ==
    pc = "asignadas" =>
        /\ Len(resultados) = Len(emergencias)
        /\ \A i \in 1..Len(resultados) :
              /\ SinClaves(resultados[i],
                           {"nodo_destino", "latitud", "longitud"})
                   = emergencias[i]
              /\ resultados[i].nodo_destino \in Rango(multi_grafo.nodos)
        /\ \A i, j \in 1..Len(resultados) :
              i # j => resultados[i].nodo_destino # resultados[j].nodo_destino

\* two emergencies that differ were bound to nodes of a graph that has
\* more nodes than emergencies
C16_Witness ==
    /\ pc = "asignadas"
    /\ Len(resultados) = 2
    /\ emergencias[1].severidad # emergencias[2].severidad
    /\ Len(multi_grafo.nodos) > 2

\* the capacities of the graph an execution returned
Capacidades(corrida) ==
    [n \in 1..Len(corrida.grafo.aristas) |->
        corrida.grafo.aristas[n].capacity]

\* the list of emergencies an execution generated, before the binding
EmergenciasGeneradas(corrida) ==
    [k \in 1..Len(corrida.emergencias_con_nodos) |->
        SinClaves(corrida.emergencias_con_nodos[k],
                  {"nodo_destino", "latitud", "longitud"})]

-----------------------------------------------------------------------------
(* gui/components/sidebar.py: the controls of the speeds.  In this part    *)
(* args is the session state [r_min_temp, r_max_temp], emergencias the     *)
(* list of the session that is handed to the update and resultados the     *)
(* list the update returns.                                                *)

\* mutant: the dicts of the list given are updated in place
actualizar_velocidades_emergencias_sin_copia(emergs, r_min, r_max, bits) ==
    LET tercio == (r_max - r_min) \div 3
        minimo(severidad) == r_min + Orden(severidad) * tercio
        nuevas ==
            [i \in 1..Len(emergs) |->
                [velocidad_requerida |->
                    uniform(minimo(emergs[i].severidad),
                            minimo(emergs[i].severidad) + tercio, bits[i])]
                  @@ emergs[i]]
    IN  [retorno |-> nuevas, entrada |-> nuevas]

\* actualizar_velocidades_emergencias(emergencias, r_min, r_max): the list
\* returned and the list given as the call leaves it.  The ranges of the
\* model have a length that is a multiple of 3, so tercio is exact.
actualizar_velocidades_emergencias(emergs, r_min, r_max, bits) ==
    LET rango_total == r_max - r_min
        tercio == rango_total \div 3
        nuevos_rangos ==
            [leve  |-> [min |-> r_min, max |-> r_min + tercio],
             media |-> [min |-> r_min + tercio, max |-> r_min + 2 * tercio],
             grave |-> [min |-> r_min + 2 * tercio, max |-> r_max]]
        emerg_copia(i) ==
            IF emergs[i].severidad \in DOMAIN nuevos_rangos
            THEN LET rango == nuevos_rangos[emergs[i].severidad]
                 IN  [velocidad_requerida |->
                          uniform(rango.min, rango.max, bits[i])]
                       @@ emergs[i]
            ELSE emergs[i]
    IN  [retorno |-> [i \in 1..Len(emergs) |-> emerg_copia(i)],
         entrada |-> emergs]

\* the ranges the number inputs of lines 272-293 are set to
RangosDeVelocidad ==
    {<<R_MIN, R_MAX>>, <<30, 60>>, <<60, 120>>, <<10, 130>>, <<90, 30>>,
     <<60, 60>>}

\* lines 272-293: the user changes the number inputs R_MIN and R_MAX
CambiarRango ==
    /\ pc = "sesion"
    /\ \E r \in RangosDeVelocidad :
          /\ r # <<args.r_min_temp, args.r_max_temp>>
          /\ args' = [r_min_temp |-> r[1], r_max_temp |-> r[2]]
    /\ UNCHANGED <<multi_grafo, grafo, regrafo, emergencias, nodo_origen,
                   costos_usuario, modelo, x, terminacion, estado,
                   valor_objetivo, rutas, detalles_flujos, uso_aristas,
                   resultados, pc, azar, corridas>>

\* the button of lines 312-314, enabled when r_min < r_max, and
\* aplicar_cambios_velocidades: the list of the session, when it has
\* emergencies, is replaced by the list the update returns
AplicarCambiosVelocidades ==
    /\ pc = "sesion"
    /\ args.r_min_temp < args.r_max_temp
    /\ IF emergencias # <<>>
       THEN \E bits \in [1..Len(emergencias) -> Bits] :
               /\ Admite(azar, bits)
               /\ azar' = Tirar(azar, bits)
               /\ LET llamada == actualizar_velocidades_emergencias(
                                     emergencias, args.r_min_temp,
                                     args.r_max_temp, bits)
                  IN  /\ resultados' = llamada.retorno
                      /\ emergencias' = llamada.entrada
       ELSE UNCHANGED <<azar, resultados, emergencias>>
    /\ pc' = "aplicado"
    /\ UNCHANGED <<multi_grafo, grafo, regrafo, nodo_origen, costos_usuario,
                   modelo, x, terminacion, estado, valor_objetivo, rutas,
                   detalles_flujos, uso_aristas, args, corridas>>

\* the lists of emergencies a session can hold: generated under the default
\* range and bound to nodes of the graph
EmergenciasDeSesion ==
    UNION {{EmergenciasConNodos(GrafoParalelas,
                                generar_conjunto_emergencias(n, bits),
                                sample(GrafoParalelas.nodos, n, nodos)) :
               bits \in [1..2 * n -> Bits], nodos \in [1..n -> Bits]} :
           n \in 0..MaxEmergencias}

InitVelocidades ==
    /\ pc = "sesion"
    /\ args = [r_min_temp |-> R_MIN, r_max_temp |-> R_MAX]
    /\ emergencias \in EmergenciasDeSesion
    /\ azar = AzarInicial
    /\ corridas = <<>>
    /\ multi_grafo = GrafoParalelas
    /\ grafo = None
    /\ regrafo = None
    /\ nodo_origen = None
    /\ costos_usuario = None
    /\ modelo = None
    /\ x = None
    /\ terminacion = None
    /\ estado = None
    /\ valor_objetivo = None
    /\ rutas = None
    /\ detalles_flujos = None
    /\ uso_aristas = None
    /\ resultados = None

NextVelocidades == CambiarRango \/ AplicarCambiosVelocidades

SpecVelocidades == InitVelocidades /\ [][NextVelocidades]_vars


\* C18: the update of a list of emergencies for a new (R_min, R_max)
\* returns a list of the same length and order in which every emergency
\* keeps its id, severidad, nodo_destino and every other field, only
\* velocidad_requerida is replaced, and the new speed lies within the third
\* of the new [R_min, R_max] of its severity; the list given is not
\* mutated.
C18_SoloVelocidades ==
    [][(pc = "sesion" /\ pc' = "aplicado" /\ emergencias # <<>>) =>
          /\ emergencias' = emergencias
          /\ Len(resultados') = Len(emergencias)
          /\ \A i \in 1..Len(emergencias) :
                /\ DOMAIN resultados'[i] = DOMAIN emergencias[i]
                /\ SinClaves(resultados'[i], {"velocidad_requerida"})
                     = SinClaves(emergencias[i], {"velocidad_requerida"})
                /\ EnTercio(resultados'[i].velocidad_requerida,
                            Orden(emergencias[i].severidad),
                            args.r_min_temp, args.r_max_temp)]_vars

\* two emergencies of different severities were updated for the range
\* [60, 120] and the speed of the first changed
C18_Witness ==
    /\ pc = "aplicado"
    /\ args = [r_min_temp |-> 60, r_max_temp |-> 120]
    /\ Len(emergencias) = 2
    /\ emergencias[1].severidad # emergencias[2].severidad
    /\ resultados[1].velocidad_requerida # emergencias[1].velocidad_requerida
    /\ resultados[1].nodo_destino = emergencias[1].nodo_destino


-----------------------------------------------------------------------------
(* resolver_modelo_ambulancias on inputs that are not well formed: an      *)
(* origin that is no node of the graph, a destination that is the origin,  *)
(* two emergencies with one destination.                                   *)

\* the origin is a node, no destination is the origin, no destination
\* appears twice and the list is not empty
EntradaValida(g, ems, origen) ==
    /\ origen \in Rango(g.nodos)
    /\ Len(ems) > 0
    /\ \A k \in 1..Len(ems) : ems[k].nodo_destino # origen
    /\ \A a, b \in 1..Len(ems) :
          a # b => ems[a].nodo_destino # ems[b].nodo_destino

\* the lists a caller can pass: ids 1..n, any node as destination
ListasCualesquiera ==
    UNION { { [k \in 1..n |->
                 [id |-> k,
                  severidad |-> ps[k].severidad,
                  velocidad_requerida |-> ps[k].velocidad_requerida,
                  nodo_destino |-> ds[k]]] :
              ps \in [1..n -> Perfiles],
              ds \in [1..n -> Rango(NodosCatalogo)] } :
            n \in 1..MaxEmergencias }

\* a node id outside the graph
NodoAjeno == 5

InitInvalida ==
    /\ pc = "crear"
    /\ multi_grafo \in Multigrafos
    /\ nodo_origen \in {1, NodoAjeno}
    /\ emergencias \in {ems \in ListasCualesquiera :
                           ~EntradaValida(multi_grafo, ems, nodo_origen)}
    /\ costos_usuario = SinCostosUsuario
    /\ grafo = None
    /\ regrafo = None
    /\ modelo = None
    /\ x = None
    /\ terminacion = None
    /\ estado = None
    /\ valor_objetivo = None
    /\ rutas = None
    /\ detalles_flujos = None
    /\ uso_aristas = None
    /\ resultados = None
    /\ azar = None
    /\ args = None
    /\ corridas = <<>>

SpecInvalida == InitInvalida /\ [][Next]_vars

\* C17: on an origin that is no node of the graph, a destination equal to
\* the origin or two emergencies with one destination, the construction of
\* the model fails with InvalidInput and no solve is attempted.
C17_EntradaInvalidaFalla ==
    (~EntradaValida(multi_grafo, emergencias, nodo_origen)
       /\ pc \notin {"crear", "construir"}) =>
        /\ pc = "error"
        /\ resultados = [tipo |-> "InvalidInput"]
        /\ modelo = None
        /\ estado = None

\* two emergencies with one destination were solved and reported Optimal
C17_Witness ==
    /\ pc = "fin"
    /\ Len(emergencias) = 2
    /\ emergencias[1].nodo_destino = emergencias[2].nodo_destino
    /\ resultados.estado = "Optimal"


-----------------------------------------------------------------------------
(* The result of a solve that the time limit stopped.                      *)

\* the keys of the dicts resolver_modelo_ambulancias returns
ClavesResultado ==
    {"estado", "costo_total", "tiempo_resolucion", "rutas", "detalles",
     "uso_aristas", "mensaje"}

\* C21: when the solver stops at the time limit holding a feasible solution
\* (the run of Resolver with terminacion "limite" that has a solution), the
\* result returns the routes of that solution as a result that is not
\* optimal and that carries a flag of the termination by the time limit.
C21_IncumbenteConBandera ==
    (pc = "fin" /\ terminacion = "limite" /\ estado # "Not Solved") =>
        /\ "rutas" \in DOMAIN resultados
        /\ resultados.estado # "Optimal"
        /\ \E clave \in DOMAIN resultados : clave \notin ClavesResultado

\* the time limit stopped the solver at a solution that is not within the
\* gap of the optimum, and the result reports it as Optimal
C21_Witness ==
    /\ pc = "fin"
    /\ terminacion = "limite"
    /\ resultados.estado = "Optimal"
    /\ DOMAIN resultados \subseteq ClavesResultado
    /\ x \notin DentroDelGap(grafo, emergencias, costos_usuario,
                             Factibles(grafo, emergencias, nodo_origen))


-----------------------------------------------------------------------------
(* An AmbulanceOptimizationModel object whose methods construir_modelo,    *)
(* resolver and extraer_resultados are called in any order.  pc names the  *)
(* last call, resultados is what that call returned or raised, x is <<>>   *)
(* while the variables have no value (varValue None), and valor_objetivo   *)
(* is <<>> for None and <<v>> for the number v.                            *)

\* the edges a street graph of the object specification is drawn from
MaxAristasObjeto == 5

\* mutant: extraer_resultados does not test the status
NoResuelto_nunca(est) == FALSE

\* line 422: self.estado is None
NoResuelto(est) == est = None

\* line 374: self.modelo is None
NoConstruido(mod) == mod = None

\* mutant: a direct route is made up for the status that is not Optimal
ResultadoNoOptimo_rutaDirecta(est) ==
    [estado            |-> est,
     costo_total       |-> None,
     tiempo_resolucion |-> "fin - inicio",
     rutas             |-> <<"origen", "destino">>,
     detalles          |-> None,
     uso_aristas       |-> None,
     mensaje           |-> ObtenerMensajeInfactibilidad(est)]

\* lines 426-434: the result of a status that is not Optimal
ResultadoNoOptimo(est) ==
    [estado            |-> est,
     costo_total       |-> None,
     tiempo_resolucion |-> "fin - inicio",
     rutas             |-> None,
     detalles          |-> None,
     uso_aristas       |-> None,
     mensaje           |-> ObtenerMensajeInfactibilidad(est)]

\* line 505 compares varValue with 0.5: it is evaluated, for the first flow
\* whose destination is not the origin, at the first edge that leaves the
\* origin
ComparaValores(g, ems, origen) ==
    /\ \E k \in 1..Len(ems) : ems[k].nodo_destino # origen
    /\ \E e \in Aristas(g) : e[1] = origen

\* construir_modelo (lines 166-195): a new LpProblem and new variables,
\* without values; estado and valor_objetivo are not touched
LlamarConstruirModelo ==
    /\ pc \in {"objeto", "construir_modelo", "resolver", "extraer_resultados"}
    /\ modelo' = "Ruteo_Ambulancias"
    /\ x' = <<>>
    /\ resultados' = None
    /\ pc' = "construir_modelo"
    /\ UNCHANGED <<multi_grafo, grafo, regrafo, emergencias, nodo_origen,
                   costos_usuario, terminacion, estado, valor_objetivo,
                   rutas, detalles_flujos, uso_aristas>>
    /\ UNCHANGED <<azar, args, corridas>>

\* resolver (lines 367-407): ValueError without a model; otherwise the
\* solve, after which valor_objetivo is assigned only when the status is
\* Optimal (lines 395-396)
LlamarResolver ==
    /\ pc \in {"objeto", "construir_modelo", "resolver", "extraer_resultados"}
    /\ IF NoConstruido(modelo)
       THEN /\ resultados' = ValueError
            /\ UNCHANGED <<x, terminacion, estado, valor_objetivo>>
       ELSE LET F == Factibles(grafo, emergencias, nodo_origen)
            IN  /\ \/ /\ F = {}
                      /\ terminacion' = "completa"
                      /\ estado' = "Infeasible"
                      /\ x' = <<>>
                      /\ UNCHANGED valor_objetivo
                   \/ \E xx \in DentroDelGap(grafo, emergencias,
                                             costos_usuario, F) :
                         /\ terminacion' = "completa"
                         /\ estado' = "Optimal"
                         /\ x' = xx
                         /\ valor_objetivo' =
                                <<FuncionObjetivo(grafo, emergencias,
                                                  costos_usuario, xx)>>
                   \/ \E xx \in F :
                         /\ terminacion' = "limite"
                         /\ estado' = "Optimal"
                         /\ x' = xx
                         /\ valor_objetivo' =
                                <<FuncionObjetivo(grafo, emergencias,
                                                  costos_usuario, xx)>>
                   \/ /\ terminacion' = "limite"
                      /\ estado' = "Not Solved"
                      /\ x' = <<>>
                      /\ UNCHANGED valor_objetivo
                /\ resultados' = estado'
    /\ pc' = "resolver"
    /\ UNCHANGED <<multi_grafo, grafo, regrafo, emergencias, nodo_origen,
                   costos_usuario, modelo, rutas, detalles_flujos,
                   uso_aristas>>
    /\ UNCHANGED <<azar, args, corridas>>

\* extraer_resultados (lines 409-461): ValueError without a status, the
\* result of lines 426-434 for a status that is not Optimal, TypeError at
\* line 505 when the variables have no value, the extraction otherwise
LlamarExtraerResultados ==
    /\ pc \in {"objeto", "construir_modelo", "resolver", "extraer_resultados"}
    /\ IF NoResuelto(estado)
       THEN /\ resultados' = ValueError
            /\ UNCHANGED <<rutas, detalles_flujos, uso_aristas>>
       ELSE IF estado # "Optimal"
       THEN /\ resultados' = ResultadoNoOptimo(estado)
            /\ UNCHANGED <<rutas, detalles_flujos, uso_aristas>>
       ELSE IF x = <<>> /\ ComparaValores(grafo, emergencias, nodo_origen)
       THEN /\ resultados' = TypeError
            /\ UNCHANGED <<rutas, detalles_flujos, uso_aristas>>
       ELSE LET xx == IF x = <<>> THEN [k \in 1..Len(emergencias) |-> {}]
                      ELSE x
                rs == ReconstruirRutas(grafo, emergencias, nodo_origen, xx)
                ds == CalcularDetallesFlujos(grafo, emergencias,
                                             costos_usuario, xx, rs)
                us == CalcularUsoAristas(grafo, emergencias, xx)
            IN  /\ rutas' = rs
                /\ detalles_flujos' = ds
                /\ uso_aristas' = us
                /\ resultados' = [estado |-> estado,
                                  costo_total |-> valor_objetivo[1],
                                  tiempo_resolucion |-> "fin - inicio",
                                  rutas |-> rs,
                                  detalles |-> ds,
                                  uso_aristas |-> us]
    /\ pc' = "extraer_resultados"
    /\ UNCHANGED <<multi_grafo, grafo, regrafo, emergencias, nodo_origen,
                   costos_usuario, modelo, x, terminacion, estado,
                   valor_objetivo>>
    /\ UNCHANGED <<azar, args, corridas>>

\* the object as __init__ leaves it (lines 79-123), on well formed inputs
InitObjeto ==
    /\ pc = "objeto"
    /\ multi_grafo \in
          { MultiDiGraph(NodosCatalogo, Escoger(Catalogo, S, 1)) :
              S \in SUBSET (1..MaxAristasObjeto) }
    /\ nodo_origen = 1
    /\ emergencias \in ListasEmergencias(nodo_origen)
    /\ costos_usuario = SinCostosUsuario
    /\ grafo = Simplificar(multi_grafo)
    /\ regrafo = None
    /\ modelo = None
    /\ x = <<>>
    /\ terminacion = None
    /\ estado = None
    /\ valor_objetivo = <<>>
    /\ rutas = None
    /\ detalles_flujos = None
    /\ uso_aristas = None
    /\ resultados = None
    /\ azar = None
    /\ args = None
    /\ corridas = <<>>

NextObjeto ==
    LlamarConstruirModelo \/ LlamarResolver \/ LlamarExtraerResultados

SpecObjeto == InitObjeto /\ [][NextObjeto]_vars


\* the statuses of LpStatus other than Optimal
EstadosNoOptimos == {"Not Solved", "Infeasible", "Unbounded", "Undefined"}

\* C22: for every status of the solver other than Optimal the result of
\* extraer_resultados consists of the status, the time of the solve and a
\* message that is not empty, has costo_total None and has no routes,
\* details or use of edges (no route is made up); for Infeasible the
\* message lists the three causes (speeds above capacities, disconnected
\* graph, bottleneck of capacities).
C22_ResultadoNoOptimo ==
    /\ \A est \in EstadosNoOptimos : ObtenerMensajeInfactibilidad(est) # <<>>
    /\ (pc = "extraer_resultados" /\ estado \in EstadosNoOptimos) =>
          /\ resultados.estado = estado
          /\ resultados.tiempo_resolucion = "fin - inicio"
          /\ resultados.mensaje = ObtenerMensajeInfactibilidad(estado)
          /\ resultados.mensaje # <<>>
          /\ resultados.costo_total = None
          /\ resultados.rutas = None
          /\ resultados.detalles = None
          /\ resultados.uso_aristas = None
          /\ DOMAIN resultados \subseteq ClavesResultado
          /\ estado = "Infeasible" =>
                {"1. VELOCIDADES REQUERIDAS > CAPACIDADES",
                 "2. GRAFO DESCONECTADO",
                 "3. CUELLO DE BOTELLA EN CAPACIDADES"}
                    \subseteq Rango(resultados.mensaje)

\* extraer_resultados returned the result of a solve found Infeasible
C22_Witness ==
    /\ pc = "extraer_resultados"
    /\ estado = "Infeasible"
    /\ resultados = ResultadoNoOptimo("Infeasible")


\* the fields of the object that hold the model and its results
CamposDelObjeto ==
    <<modelo, x, terminacion, estado, valor_objetivo, rutas, detalles_flujos,
      uso_aristas>>

\* C23: the lifecycle is Build, Solve, Extract: resolver() called before
\* construir_modelo() raises ValueError, extraer_resultados() called before
\* resolver() raises ValueError, both leaving the fields of the object
\* (modelo, estado, valor_objetivo, rutas) unchanged; a result is produced
\* only after a solve.
C23_CicloDeVida ==
    [][/\ (pc' = "resolver" /\ modelo = None) =>
             /\ CamposDelObjeto' = CamposDelObjeto
             /\ resultados' = ValueError
       /\ (pc' = "extraer_resultados" /\ estado = None) =>
             /\ CamposDelObjeto' = CamposDelObjeto
             /\ resultados' = ValueError
       /\ (pc' = "extraer_resultados" /\ "estado" \in DOMAIN resultados') =>
             /\ modelo # None
             /\ terminacion # None
             /\ resultados'.estado = estado
             /\ estado # None]_vars

\* extraer_resultados was called on a model that was built and not solved
C23_Witness ==
    /\ pc = "extraer_resultados"
    /\ modelo # None
    /\ estado = None
    /\ resultados = ValueError


\* C28: the status and the objective stored on the object describe the
\* model built last: extraer_resultados() called right after
\* construir_modelo() is rejected with an exception and returns no result
\* (also on an object solved before), and valor_objetivo is not None only
\* when the last solve ended Optimal.
C28_EstadoDelModeloActual ==
    [][/\ (pc = "construir_modelo" /\ pc' = "extraer_resultados") =>
             "estado" \notin DOMAIN resultados'
       /\ (pc' = "resolver" /\ modelo # None /\ estado' # "Optimal") =>
             valor_objetivo' = <<>>]_vars

\* the last solve was stopped by the time limit without a solution and the
\* object still holds the objective of the solve before it
C28_Witness ==
    /\ pc = "resolver"
    /\ estado = "Not Solved"
    /\ valor_objetivo # <<>>


-----------------------------------------------------------------------------
(* The routes of an Optimal result.                                        *)

\* the consecutive pairs of nodes of a route
ParesConsecutivos(ruta) ==
    [n \in 1..(Len(ruta) - 1) |-> <<ruta[n], ruta[n + 1]>>]

\* route k of the result goes from the origin to the destination of
\* emergency k and its detail lists every step of it
RutaCompleta(k) ==
    LET ruta == resultados.rutas[k]
        detalle == resultados.detalles[k]
    IN  /\ ruta[1] = nodo_origen
        /\ ruta[Len(ruta)] = emergencias[k].nodo_destino
        /\ detalle.emergencia_id = emergencias[k].id
        /\ detalle.ruta_nodos = ruta
        /\ detalle.num_aristas = Len(ruta) - 1
        /\ detalle.ruta_aristas = ParesConsecutivos(ruta)

\* C27: in every Optimal result rutas has one route per emergency, in the
\* order of the input, and each route is a complete path: it starts at the
\* origin, ends at the destination of its emergency, num_aristas is
\* len(ruta_nodos) - 1 and ruta_aristas are the consecutive pairs of nodes.
C27_RutasCompletas ==
    (pc = "fin" /\ resultados.estado = "Optimal") =>
        /\ Len(resultados.rutas) = Len(emergencias)
        /\ Len(resultados.detalles) = Len(emergencias)
        /\ \A k \in 1..Len(emergencias) : RutaCompleta(k)

\* the solver ended its search at a solution within the gap, and the route
\* of an emergency in the Optimal result does not end at its destination
C27_Witness ==
    /\ pc = "fin"
    /\ terminacion = "completa"
    /\ resultados.estado = "Optimal"
    /\ \E k \in 1..Len(emergencias) :
          resultados.rutas[k][Len(resultados.rutas[k])]
            # emergencias[k].nodo_destino


-----------------------------------------------------------------------------
(* _reconstruir_ruta_flujo, one iteration of its while loop per step, on   *)
(* any values of the variables of one flow.  rutas holds the local list    *)
(* ruta (nodo_actual is its last node), x is <<S>> with S the edges whose  *)
(* variable is above 0.5, and resultados is the list returned (<<>> until   *)
(* the return).                                                            *)

\* the graph with every pair of the catalogue
GrafoCatalogo == Simplificar(MultiDiGraph(NodosCatalogo, Catalogo))

\* mutant: the successor is never taken as visited
YaVisitado_nunca(siguiente_nodo, ruta) == FALSE

\* line 515: siguiente_nodo in visitados
YaVisitado(siguiente_nodo, ruta) == siguiente_nodo \in Rango(ruta)

\* the destination of the flow
DestinoRuta == emergencias[1].nodo_destino

\* lines 500-522: an iteration that appends the successor
IterarRuta ==
    /\ pc = "ruta_bucle"
    /\ rutas[Len(rutas)] # DestinoRuta
    /\ LET siguiente_nodo == SiguienteNodo(grafo, x[1], rutas[Len(rutas)])
       IN  /\ siguiente_nodo # <<>>
           /\ ~YaVisitado(siguiente_nodo[1], rutas)
           /\ rutas' = Append(rutas, siguiente_nodo[1])
    /\ UNCHANGED <<pc, multi_grafo, grafo, regrafo, emergencias, nodo_origen,
                   costos_usuario, modelo, x, terminacion, estado,
                   valor_objetivo, detalles_flujos, uso_aristas, resultados,
                   azar, args, corridas>>

\* the exit of the loop (the condition of line 500, the breaks of lines 513
\* and 518) and the return of line 524
TerminarRuta ==
    /\ pc = "ruta_bucle"
    /\ \/ rutas[Len(rutas)] = DestinoRuta
       \/ LET siguiente_nodo ==
                  SiguienteNodo(grafo, x[1], rutas[Len(rutas)])
          IN  \/ siguiente_nodo = <<>>
              \/ /\ siguiente_nodo # <<>>
                 /\ YaVisitado(siguiente_nodo[1], rutas)
    /\ resultados' = rutas
    /\ pc' = "ruta_lista"
    /\ UNCHANGED <<multi_grafo, grafo, regrafo, emergencias, nodo_origen,
                   costos_usuario, modelo, x, terminacion, estado,
                   valor_objetivo, rutas, detalles_flujos, uso_aristas,
                   azar, args, corridas>>

\* lines 495-497 on any origin, destination and values of the variables
InitRuta ==
    /\ pc = "ruta_bucle"
    /\ grafo = GrafoCatalogo
    /\ nodo_origen \in Rango(NodosCatalogo)
    /\ emergencias \in {<<[id |-> 1, severidad |-> "leve",
                          velocidad_requerida |-> 40, nodo_destino |-> d]>> :
                           d \in Rango(NodosCatalogo)}
    /\ x \in {<<S>> : S \in SUBSET Aristas(GrafoCatalogo)}
    /\ rutas = <<nodo_origen>>
    /\ multi_grafo = None
    /\ regrafo = None
    /\ costos_usuario = None
    /\ modelo = "Ruteo_Ambulancias"
    /\ terminacion = None
    /\ estado = "Optimal"
    /\ valor_objetivo = None
    /\ detalles_flujos = None
    /\ uso_aristas = None
    /\ resultados = <<>>
    /\ azar = None
    /\ args = None
    /\ corridas = <<>>

NextRuta == IterarRuta \/ TerminarRuta

\* the loop is a sequential program: it takes its next step while it has one
SpecRuta == InitRuta /\ [][NextRuta]_vars /\ WF_vars(NextRuta)

\* the list starts at the origin, repeats no node, and its consecutive
\* nodes are joined by an edge whose variable is above 0.5
RutaBienFormada(ruta) ==
    /\ ruta[1] = nodo_origen
    /\ \A a, b \in 1..Len(ruta) : a # b => ruta[a] # ruta[b]
    /\ \A n \in 1..(Len(ruta) - 1) : <<ruta[n], ruta[n + 1]>> \in x[1]

\* C24: the reconstruction of the route of a flow terminates for every
\* assignment of the values of x (with cycles, or without a chosen
\* successor) and returns a list of nodes that starts at the origin, never
\* repeats a node and whose consecutive nodes are joined by an edge with
\* x > 0.5; it stops at the destination, or returns the partial path when
\* the current node has no chosen edge out or the chosen successor was
\* visited.
C24_ReconstruccionTermina ==
    /\ [](pc = "ruta_bucle" => RutaBienFormada(rutas))
    /\ [](pc = "ruta_lista" =>
            /\ RutaBienFormada(resultados)
            /\ resultados = ReconstruirRutaFlujo(grafo, x[1], nodo_origen,
                                                 DestinoRuta)
            /\ LET ultimo == resultados[Len(resultados)]
                   siguiente_nodo == SiguienteNodo(grafo, x[1], ultimo)
               IN  \/ ultimo = DestinoRuta
                   \/ siguiente_nodo = <<>>
                   \/ siguiente_nodo[1] \in Rango(resultados))
    /\ <>(pc = "ruta_lista")

\* the loop met a cycle: it returned a path of three nodes that does not end
\* at the destination, the successor of its last node being in the path
C24_Witness ==
    /\ pc = "ruta_lista"
    /\ Len(resultados) = 3
    /\ resultados[3] # DestinoRuta
    /\ SiguienteNodo(grafo, x[1], resultados[3]) # <<>>
    /\ SiguienteNodo(grafo, x[1], resultados[3])[1] \in Rango(resultados)


-----------------------------------------------------------------------------
(* The graph and the list of emergencies the caller hands to the           *)
(* preparation.  multi_grafo is the graph object of the caller, args.grafo *)
(* its value when it was handed over.                                      *)

\* C25: the street graph given is read-only: the assignment of capacities,
\* the derivation of travel times and the binding of destinations leave
\* the graph object of the caller (nodes, edges and their attributes) as it
\* was given, and the list of emergencies of the caller is not mutated.
C25_GrafoSoloLectura ==
    /\ pc \in {"capacidades", "tiempos", "origen", "asignadas", "preparado",
               "error"} => multi_grafo = args.grafo
    /\ pc = "asignadas" =>
          \A i \in 1..Len(emergencias) :
              "nodo_destino" \notin DOMAIN emergencias[i]

\* the preparation returned and the edges of the graph of the caller now
\* carry a capacity, which the graph given did not have
C25_Witness ==
    /\ pc = "preparado"
    /\ Len(multi_grafo.aristas) > 0
    /\ \A n \in 1..Len(multi_grafo.aristas) :
          /\ "capacity" \in DOMAIN multi_grafo.aristas[n]
          /\ "capacity" \notin DOMAIN args.grafo.aristas[n]
    /\ \A i \in 1..Len(emergencias) :
          "nodo_destino" \notin DOMAIN emergencias[i]


-----------------------------------------------------------------------------
(* asignar_emergencias_a_nodos called on its own, as the button that       *)
(* generates new emergencies calls it (sidebar.py, lines 196-201), on      *)
(* graphs with and without interior nodes.                                 *)

\* nodes 3 and 4 have three predecessors and three successors, nodes 1 and
\* 2 have two of each
GrafoDosInternos ==
    GrafoPreparacion(<<1, 2, 3, 4>>,
        <<Via(1, 3, 0, 100), Via(1, 4, 0, 100), Via(2, 3, 0, 100),
          Via(2, 4, 0, 100), Via(3, 1, 0, 100), Via(3, 2, 0, 100),
          Via(3, 4, 0, 100), Via(4, 1, 0, 100), Via(4, 2, 0, 100),
          Via(4, 3, 0, 100)>>)

\* the lists generar_conjunto_emergencias returns for 1..MaxEmergencias
ListasGeneradas ==
    UNION {{generar_conjunto_emergencias(n, bits) :
               bits \in [1..2 * n -> Bits]} : n \in 1..MaxEmergencias}

InitAsignar ==
    /\ pc = "origen"
    /\ multi_grafo \in {GrafoDosInternos, GrafoEstrella, GrafoParalelas}
    /\ emergencias \in ListasGeneradas
    /\ args = [seed |-> <<RANDOM_SEED>>]
    /\ azar = AzarInicial
    /\ nodo_origen = 1
    /\ corridas = <<>>
    /\ grafo = None
    /\ regrafo = None
    /\ costos_usuario = None
    /\ modelo = None
    /\ x = None
    /\ terminacion = None
    /\ estado = None
    /\ valor_objetivo = None
    /\ rutas = None
    /\ detalles_flujos = None
    /\ uso_aristas = None
    /\ resultados = None

NextAsignar == AsignarEmergenciasANodos

SpecAsignar == InitAsignar /\ [][NextAsignar]_vars

\* the nodes with at least three predecessors and three successors
Interiores ==
    {nodo \in Rango(multi_grafo.nodos) :
        /\ Cardinality({multi_grafo.aristas[n].u :
              n \in {m \in 1..Len(multi_grafo.aristas) :
                        multi_grafo.aristas[m].v = nodo}}) >= 3
        /\ Cardinality({multi_grafo.aristas[n].v :
              n \in {m \in 1..Len(multi_grafo.aristas) :
                        multi_grafo.aristas[m].u = nodo}}) >= 3}

-----------------------------------------------------------------------------
(* The session of the GUI (gui/app.py, gui/components/sidebar.py).  Every  *)
(* handler runs to its end and the page is drawn again.  Of                *)
(* st.session_state: modelo is datos_modelo, emergencias is                *)
(* emergencias_generadas (<<>> while it is None), resultados is            *)
(* resultado_optimizacion (<<>> while it is absent or None, <<r>> when it  *)
(* holds r), args holds the numbers of the sidebar and the flags, azar is  *)
(* the generator of the process.                                           *)

C_MIN == 30
C_MAX == 100

\* the clicks of a session
MaxClics == 4

\* int(time.time()) at a click
Timestamps == {1, 2}

\* the sequences of n draws a call gets: one value throughout, or the
\* values in turn
Tiradas(n) ==
    {[i \in 1..n |-> b] : b \in Bits} \cup {[i \in 1..n |-> (i - 1) % 3]}

\* data/processed/datos_modelo.pkl as the preparation wrote it: the graph
\* with capacities of [C_MIN, C_MAX] and travel times, the origin, and
\* three emergencies of the default range bound to nodes
DatosArchivo ==
    LET vias == <<Via(4, 1, 0, 1000), Via(4, 2, 0, 1000), Via(4, 3, 0, 1000),
                  Via(2, 1, 0, 500), Via(3, 2, 0, 500)>>
        g == [GrafoPreparacion(<<1, 2, 3, 4>>, vias) EXCEPT !.aristas =
                calcular_tiempos_viaje(
                    asignar_capacidades_aleatorias(@, C_MIN, C_MAX,
                                                   <<2, 2, 2, 1, 1>>),
                    Len(@) + 1)]
    IN  [grafo       |-> g,
         nodo_origen |-> 4,
         emergencias |->
             EmergenciasConNodos(
                 g, generar_conjunto_emergencias(3, <<0, 1, 1, 0, 2, 0>>),
                 <<1, 2, 3>>)]

\* one more click of the session
Clic ==
    /\ Len(corridas) < MaxClics
    /\ corridas' = Append(corridas, "clic")

\* st.session_state.emergencias_generadas or
\* st.session_state.datos_modelo.get('emergencias', [])
EmergenciasActuales ==
    IF emergencias # <<>> THEN emergencias ELSE modelo.emergencias

\* lines 272-293: the number inputs R_MIN and R_MAX
RangosDeSesion == {<<R_MIN, R_MAX>>, <<60, 120>>, <<90, 30>>}

CambiarRangoEnSesion ==
    /\ pc = "gui"
    /\ Clic
    /\ \E r \in RangosDeSesion :
          /\ r # <<args.r_min_temp, args.r_max_temp>>
          /\ args' = [args EXCEPT !.r_min_temp = r[1], !.r_max_temp = r[2]]
    /\ UNCHANGED <<multi_grafo, grafo, regrafo, emergencias, nodo_origen,
                   costos_usuario, modelo, x, terminacion, estado,
                   valor_objetivo, rutas, detalles_flujos, uso_aristas,
                   resultados, pc, azar>>

\* the button of lines 312-314 and aplicar_cambios_velocidades (773-806)
AplicarCambiosVelocidadesEnSesion ==
    /\ pc = "gui"
    /\ Clic
    /\ args.r_min_temp < args.r_max_temp
    /\ args' = [args EXCEPT !.r_min_aplicado = args.r_min_temp,
                            !.r_max_aplicado = args.r_max_temp]
    /\ IF EmergenciasActuales # <<>>
       THEN \E bits \in Tiradas(Len(EmergenciasActuales)) :
               /\ Admite(azar, bits)
               /\ azar' = Tirar(azar, bits)
               /\ LET emergencias_actualizadas ==
                          actualizar_velocidades_emergencias(
                              EmergenciasActuales, args.r_min_temp,
                              args.r_max_temp, bits).retorno
                  IN  IF emergencias # <<>>
                      THEN /\ emergencias' = emergencias_actualizadas
                           /\ UNCHANGED modelo
                      ELSE /\ modelo' = [modelo EXCEPT !.emergencias =
                                            emergencias_actualizadas]
                           /\ UNCHANGED emergencias
       ELSE UNCHANGED <<azar, emergencias, modelo>>
    /\ UNCHANGED <<multi_grafo, grafo, regrafo, nodo_origen, costos_usuario,
                   x, terminacion, estado, valor_objetivo, rutas,
                   detalles_flujos, uso_aristas, resultados, pc>>

\* the button of seccion_emergencias (lines 176-207): the generator is
\* seeded with the timestamp, generar_conjunto_emergencias() draws the
\* number, the severities and the speeds of the default range, and
\* asignar_emergencias_a_nodos seeds it again and draws the nodes;
\* random.sample raises ValueError when the graph has too few nodes
GenerarNuevasEmergencias ==
    /\ pc = "gui"
    /\ Clic
    /\ \E semilla_nueva \in Timestamps :
       \E bits \in Tiradas(1 + 2 * NUM_EMERGENCIAS_MAX) :
          LET sembrado  == seed(azar, semilla_nueva)
              n         == generar_num_emergencias(bits[1])
              usadas    == SubSeq(bits, 1, 1 + 2 * n)
              emergencias_basicas ==
                  generar_conjunto_emergencias(n, SubSeq(bits, 2, 1 + 2 * n))
              grafo_sesion == modelo.grafo
              resembrado == seed(Tirar(sembrado, usadas), semilla_nueva)
              nodos_a_usar == NodosAUsar(grafo_sesion, emergencias_basicas)
          IN  /\ Admite(sembrado, usadas)
              /\ IF n > Len(nodos_a_usar)
                 THEN /\ azar' = resembrado
                      /\ UNCHANGED emergencias
                 ELSE /\ azar' = Tirar(resembrado, SubSeq(bits, 1, n))
                      /\ emergencias' =
                            EmergenciasConNodos(
                                grafo_sesion, emergencias_basicas,
                                sample(nodos_a_usar, n, SubSeq(bits, 1, n)))
    /\ UNCHANGED <<multi_grafo, grafo, regrafo, nodo_origen, costos_usuario,
                   modelo, x, terminacion, estado, valor_objetivo, rutas,
                   detalles_flujos, uso_aristas, resultados, pc, args>>

\* the button of seccion_cargar_datos (lines 63-82): the caches are cleared
\* and datos_modelo is read again from the file
RecargarDatos ==
    /\ pc = "gui"
    /\ Clic
    /\ modelo' = DatosArchivo
    /\ UNCHANGED <<multi_grafo, grafo, regrafo, emergencias, nodo_origen,
                   costos_usuario, x, terminacion, estado, valor_objetivo,
                   rutas, detalles_flujos, uso_aristas, resultados, pc,
                   azar, args>>

\* the button of lines 380-383 and aplicar_cambios_capacidades (835-878),
\* with the number inputs C_MIN and C_MAX left at their initial values
AplicarCambiosCapacidades ==
    /\ pc = "gui"
    /\ Clic
    /\ \E seed_nueva \in Timestamps :
       \E bits \in Tiradas(Len(modelo.grafo.aristas)) :
          LET sembrado == seed(azar, seed_nueva)
          IN  /\ Admite(sembrado, bits)
              /\ azar' = Tirar(sembrado, bits)
              /\ modelo' = [modelo EXCEPT !.grafo.aristas =
                               calcular_tiempos_viaje(
                                   asignar_capacidades_aleatorias(
                                       @, C_MIN, C_MAX, bits),
                                   Len(@) + 1)]
    /\ args' = [args EXCEPT !.capacidades_modificadas = TRUE]
    /\ UNCHANGED <<multi_grafo, grafo, regrafo, emergencias, nodo_origen,
                   costos_usuario, x, terminacion, estado, valor_objetivo,
                   rutas, detalles_flujos, uso_aristas, resultados, pc>>

\* optimization_model.py, lines 717-719: the result of a solve that ended
\* Optimal with the values xx
ResultadoOptimo(g, ems, origen, cu, xx) ==
    LET rs == ReconstruirRutas(g, ems, origen, xx)
    IN  [estado            |-> "Optimal",
         costo_total       |-> FuncionObjetivo(g, ems, cu, xx),
         tiempo_resolucion |-> "fin - inicio",
         rutas             |-> rs,
         detalles          |-> CalcularDetallesFlujos(g, ems, cu, xx, rs),
         uso_aristas       |-> CalcularUsoAristas(g, ems, xx)]

\* optimization_model.py, lines 720-726
ResultadoSinSolucion(est) ==
    [estado            |-> est,
     costo_total       |-> None,
     tiempo_resolucion |-> "fin - inicio",
     mensaje           |-> ObtenerMensajeInfactibilidad(est)]

\* resolver_modelo_ambulancias(grafo, emergencias, nodo_origen,
\* costos_usuario, time_limit=120): the results it may return
ResultadosDeResolver(mg, ems, origen, cu) ==
    LET g == Simplificar(mg)
        F == Factibles(g, ems, origen)
    IN  {ResultadoOptimo(g, ems, origen, cu, xx) : xx \in F}
          \cup {ResultadoSinSolucion("Not Solved")}
          \cup (IF F = {} THEN {ResultadoSinSolucion("Infeasible")} ELSE {})

\* the button Calcular Rutas and ejecutar_optimizacion (lines 606-703): it
\* returns early when parameters are pending or there are no emergencies
EjecutarOptimizacion ==
    /\ pc = "gui"
    /\ Clic
    /\ args.r_min_temp = args.r_min_aplicado
    /\ args.r_max_temp = args.r_max_aplicado
    /\ args.r_min_aplicado < args.r_max_aplicado
    /\ EmergenciasActuales # <<>>
    /\ \E resultado \in ResultadosDeResolver(modelo.grafo, EmergenciasActuales,
                                             modelo.nodo_origen,
                                             costos_usuario) :
          resultados' = <<resultado>>
    /\ args' = [args EXCEPT !.parametros_optimizacion =
                   <<[r_min |-> args.r_min_aplicado,
                      r_max |-> args.r_max_aplicado,
                      num_emergencias |-> Len(EmergenciasActuales)]>>]
    /\ UNCHANGED <<multi_grafo, grafo, regrafo, emergencias, nodo_origen,
                   costos_usuario, modelo, x, terminacion, estado,
                   valor_objetivo, rutas, detalles_flujos, uso_aristas, pc,
                   azar>>

\* recalcular_flujos (lines 708-766): it notes the parameters in force and
\* clears the flag of the capacities; the model is not solved
RecalcularFlujos ==
    /\ pc = "gui"
    /\ Clic
    /\ EmergenciasActuales # <<>>
    /\ args.parametros_optimizacion # <<>>
    /\ args' = [args EXCEPT
                   !.parametros_optimizacion =
                       <<[r_min |-> args.r_min_aplicado,
                          r_max |-> args.r_max_aplicado,
                          num_emergencias |-> Len(EmergenciasActuales)]>>,
                   !.capacidades_modificadas = FALSE]
    /\ UNCHANGED <<multi_grafo, grafo, regrafo, emergencias, nodo_origen,
                   costos_usuario, modelo, x, terminacion, estado,
                   valor_objetivo, rutas, detalles_flujos, uso_aristas,
                   resultados, pc, azar>>

\* the session after inicializar_session_state has loaded the data
InitSesion ==
    /\ pc = "gui"
    /\ modelo = DatosArchivo
    /\ emergencias = <<>>
    /\ resultados = <<>>
    /\ args = [r_min_temp |-> R_MIN, r_max_temp |-> R_MAX,
               r_min_aplicado |-> R_MIN, r_max_aplicado |-> R_MAX,
               capacidades_modificadas |-> FALSE,
               parametros_optimizacion |-> <<>>]
    /\ azar = AzarInicial
    /\ costos_usuario = SinCostosUsuario
    /\ corridas = <<>>
    /\ multi_grafo = None
    /\ grafo = None
    /\ regrafo = None
    /\ nodo_origen = None
    /\ x = None
    /\ terminacion = None
    /\ estado = None
    /\ valor_objetivo = None
    /\ rutas = None
    /\ detalles_flujos = None
    /\ uso_aristas = None

NextSesion ==
    \/ CambiarRangoEnSesion
    \/ AplicarCambiosVelocidadesEnSesion
    \/ GenerarNuevasEmergencias
    \/ RecargarDatos
    \/ AplicarCambiosCapacidades
    \/ EjecutarOptimizacion
    \/ RecalcularFlujos

SpecSesion == InitSesion /\ [][NextSesion]_vars

\* C29: in the session, after any sequence of Aplicar of the speeds,
\* Generar Nuevas Emergencias and Recargar Datos, the velocidad_requerida
\* of every current emergency lies within the third of its severity of the
\* range applied, [r_min_aplicado, r_max_aplicado].
C29_VelocidadesEnRangoAplicado ==
    \A i \in 1..Len(EmergenciasActuales) :
        EnTercio(EmergenciasActuales[i].velocidad_requerida,
                 Orden(EmergenciasActuales[i].severidad),
                 args.r_min_aplicado, args.r_max_aplicado)

\* the range [60, 120] is applied and the emergencies generated after it
\* have a speed below 60
C29_Witness ==
    /\ args.r_min_aplicado = 60
    /\ args.r_max_aplicado = 120
    /\ emergencias # <<>>
    /\ \E i \in 1..Len(emergencias) : emergencias[i].velocidad_requerida < 60


\* the capacity of the edge e of the graph of the session, as the model of
\* the solve would read it
CapacidadActual(e) == Arista(Simplificar(modelo.grafo), e[1], e[2]).capacity

\* C30: in the session, a stored resultado_optimizacion with estado Optimal
\* describes the current scenario: after the capacities are assigned again,
\* the emergencies are generated again or their speeds are drawn again, the
\* result stored before is cleared or computed again, so that its routes
\* and edge usage are those of the current emergencies and capacities.
C30_ResultadoVigente ==
    (resultados # <<>> /\ resultados[1].estado = "Optimal") =>
        LET resultado == resultados[1]
        IN  /\ Len(resultado.detalles) = Len(EmergenciasActuales)
            /\ \A k \in 1..Len(resultado.detalles) :
                  /\ k <= Len(EmergenciasActuales)
                  /\ resultado.detalles[k].nodo_destino
                       = EmergenciasActuales[k].nodo_destino
                  /\ resultado.detalles[k].velocidad_requerida
                       = EmergenciasActuales[k].velocidad_requerida
            /\ \A e \in DOMAIN resultado.uso_aristas :
                  resultado.uso_aristas[e].capacidad = CapacidadActual(e)

\* an Optimal result is stored, its routes end at the destinations of the
\* emergencies of the file, and the emergencies generated after it have
\* other destinations
C30_Witness ==
    /\ resultados # <<>>
    /\ resultados[1].estado = "Optimal"
    /\ Len(emergencias) = Len(resultados[1].detalles)
    /\ \A k \in 1..Len(resultados[1].detalles) :
          resultados[1].detalles[k].nodo_destino
            = DatosArchivo.emergencias[k].nodo_destino
    /\ \E k \in 1..Len(emergencias) :
          emergencias[k].nodo_destino
            # resultados[1].detalles[k].nodo_destino

=============================================================================
